---- MODULE Spec2Model ----
(***************************************************************************)
(* Hub-and-spoke coordination of mpi-sppy cylinders: one-sided windows     *)
(* with a trailing write counter (spcommunicator.py), the main loops of    *)
(* the aggregation spoke (slam_heuristic.py) and of the look-ahead spoke   *)
(* (xhatlooper_bounder.py), and the hub / wheel life cycle around them.    *)
(***************************************************************************)
EXTENDS Integers, Sequences, FiniteSets, TLC

(* ---------------- bounds of the model ---------------- *)
MaxPublish == 2          \* hub iterations (nonant publishes) explored
MaxNonant == 1           \* nonant values are 0.5 * (1..MaxNonant)
MaxObj == 2              \* objective values are drawn from 1..MaxObj
MaxLen == 2              \* window lengths requested of one role: 0..MaxLen
MaxCalls == 4            \* calls a driver makes on one role object
MaxRows == 3             \* rows (scenarios) of a nonant matrix: 1..MaxRows
MaxCandidate == 30       \* candidate values, in tenths: -MaxCandidate..MaxCandidate
MaxPasses == 3           \* loop passes of one spoke followed statement by statement
MaxCuts == 3             \* add_cut calls made on one proximal-approximation manager

(* ---------------- values ---------------- *)
NaN == 9999              \* np.nan, the undefined sentinel of a fresh buffer
PosInf == 1000           \* +inf, above every objective value
NegInf == 0 - PosInf     \* -inf
num_scen == 2            \* len(self.opt.local_scenarios) of a spoke rank
num_vars == 1            \* nonants of one scenario
NonantLen == num_scen * num_vars
BoundLen == 1            \* a bound window carries one scalar
KillLen == 1             \* the kill window carries one flag

NonantValues == {5 * k : k \in 1..MaxNonant}   \* in tenths: 0.5, 1.0, ...
ObjValues == 1..MaxObj
NonantVectors == [1..NonantLen -> NonantValues]

(* spoke specifications a wheel can be built from: strata rank 0 is the   *)
(* hub, the spokes of the wheel take the ranks above it                    *)
SpokeDicts == {1, 2}
SpokeKind(s) == IF s = 1 THEN "slam" ELSE "xhat"

(* ---------------- windows ---------------- *)

(* np.empty(size): the slot of the write counter is not added              *)
communicator_array_NoExtraSlot(size) ==
    [i \in 1..size |-> IF i = size THEN 0 ELSE NaN]

communicator_array(size) ==
    [i \in 1..(size + 1) |-> IF i = size + 1 THEN 0 ELSE NaN]

(* the buffer left as np.nan throughout, the write number not initialised  *)
make_window_NoCounterInit(length) ==
    [i \in 1..(length + 1) |-> NaN]

make_window(length) ==
    [i \in 1..(length + 1) |-> IF i = length + 1 THEN 0 ELSE NaN]

WriteId(buf) == buf[Len(buf)]
Payload(buf) == SubSeq(buf, 1, Len(buf) - 1)

(* the publish ends with the payload: the write counter is left alone      *)
IncrementCounter_Missing(buf) == buf

(* the write counter is a flag that flips between 0 and 1                  *)
IncrementCounter_Wrap(buf) == [buf EXCEPT ![Len(buf)] = (@ + 1) % 2]

(* publish, second half: the owner increments its write counter *)
IncrementCounter(buf) == [buf EXCEPT ![Len(buf)] = @ + 1]

(* poll: counter-delta rule, strictly greater than the last-seen value *)
HasNewData(buf, last_seen) == WriteId(buf) > last_seen

VARIABLES
    list_of_spoke_dict,   \* the spokes the wheel was constructed with
    is_minimizing,        \* sense of the problem, fixed for the run
    windows_constructed,  \* per rank: SPCommunicator._windows_constructed
    hub_state,            \* SETUP / ITERATING / CONVERGED / FINALIZED
    hub_pc,               \* position of the hub inside its state
    hub_iter,             \* iterations of the primal loop done
    hub_x,                \* nonant values of the wrapped optimizer
    hub_cursor,           \* <<spoke, slot>> being written by the publish
    hub_buf,              \* per spoke: outbound window, nonants + counter
    kill_buf,             \* the hub's kill window
    hub_seen,             \* per spoke: last counter the hub saw from it
    BestInnerBound,       \* the hub's tracked best incumbent value
    best_source,          \* the spoke the tracked best was taken from, or 0
    spoke_pc,             \* per spoke: position in spin() / main()
    spoke_buf,            \* per spoke: bound window, bound + counter
    remote_write_id,      \* per spoke: last-seen counter of the hub window
    localnonants,         \* per spoke: payload fetched by the last poll
    fixed,                \* per spoke: values the nonants are fixed to
    obj,                  \* per spoke: candidate bound of this pass
    best_inner_bound,     \* per spoke: best bound it has reported
    acted,                \* history: counters on which the new-data branch ran
    offered,              \* history: values handed to update_if_improving
    passes_after_kill,    \* history: kill checks done after the kill publish
    kill_seen,            \* history: got_kill_signal() has returned True
    post_done,            \* ranks whose driver has run its code after spin()
    solution_written,     \* ranks on which a solution writer was invoked
    opt_exposed,          \* ranks whose driver took wheel.spcomm.opt
    role_constructed,     \* one role object: self._windows_constructed
    role_live,            \* per window of the role: allocated and not freed
    role_buffers,         \* per window of the role: self.buffers[i]
    role_recv,            \* the role's receive array
    role_seen,            \* per window: last counter a poll has fetched
    role_frees,           \* history: per window, calls of Free() so far
    role_length,          \* length the role's windows were requested with
    role_expected,        \* length the reading side expects
    role_error,           \* the error the last call raised, or "none"
    role_calls,           \* calls made on the role object so far
    role_last_calls,      \* history: the last two calls, <<earlier, latest>>
    published,            \* history: per spoke, payload of the hub's last
                          \* completed publish into its outbound window
    torn_pass,            \* history: per spoke, the pass in progress works
                          \* on a payload that mixes two publishes
    torn_reported,        \* history: per spoke, the bound it published from
                          \* such a payload, or NaN
    full_after,           \* history: per spoke, the objective of its latest
                          \* pass on a complete publish after that, or NaN
    opt,                  \* per spoke: the wrapped optimizer (self.opt)
    raised,               \* per rank: what ended its process, or "none"
    warmed_up,            \* history: per spoke, its preparation steps ran
    replica_pc,           \* per spoke: its replica on the other cylinder
                          \* rank, as far as a failure of the spoke concerns it
    cfg,                  \* the driver's parsed configuration
    driver_pc,            \* position of the driver before wheel.spin()
    driver_error,         \* the error the driver raised, or "none"
    pure_call,            \* a call of a function of the aggregation spoke
    pure_result,          \* what that call has computed so far
    replicas              \* the replicas of the aggregation spoke, one per
                          \* cylinder rank, each with the window of its hub
                          \* rank

vars == <<list_of_spoke_dict, is_minimizing, windows_constructed, hub_state, hub_pc, hub_iter,
          hub_x, hub_cursor, hub_buf, kill_buf, hub_seen, BestInnerBound,
          best_source, spoke_pc, spoke_buf, remote_write_id, localnonants, fixed, obj,
          best_inner_bound, acted, offered, passes_after_kill,
          kill_seen, post_done, solution_written, opt_exposed,
          role_constructed, role_live, role_buffers, role_recv, role_seen,
          role_frees, role_length, role_expected, role_error, role_calls,
          role_last_calls, published, torn_pass, torn_reported, full_after,
          opt, raised, warmed_up, replica_pc, cfg, driver_pc, driver_error, pure_call,
          pure_result, replicas>>

hubVars == <<hub_state, hub_pc, hub_iter, hub_x, hub_cursor, hub_buf,
             kill_buf, hub_seen, BestInnerBound, best_source>>
spokeVars == <<spoke_pc, spoke_buf, remote_write_id, localnonants, fixed,
               obj, best_inner_bound>>
histVars == <<acted, offered, passes_after_kill, kill_seen>>
roleVars == <<role_constructed, role_live, role_buffers, role_recv,
              role_seen, role_frees, role_length, role_expected, role_error,
              role_calls, role_last_calls>>
tornVars == <<published, torn_pass, torn_reported, full_after>>
faultVars == <<opt, raised, warmed_up, replica_pc>>
setupVars == <<cfg, driver_pc, driver_error>>
pureVars == <<pure_call, pure_result>>
replicaVars == <<replicas>>
sideVars == <<roleVars, setupVars, pureVars, replicaVars>>
driverVars == <<post_done, solution_written, opt_exposed, sideVars>>

Spokes == list_of_spoke_dict
n_spokes == Cardinality(list_of_spoke_dict)
Ranks == {0} \cup SpokeDicts

(* every stratum spans the same cylinder ranks; a process of the run is    *)
(* <<strata_rank, cylinder_rank>>. The windows of a cylinder rank connect  *)
(* its hub with its spokes only, and the replicas of a role go through the *)
(* same protocol steps: the protocol state below is that of cylinder rank  *)
(* zero, and spin() of a replica returns with that of cylinder rank zero   *)
CylinderRanks == 0..1
GlobalRanks == ({0} \cup Spokes) \X CylinderRanks

(* the wheels explored: no spoke, one spoke of either kind, or both; the   *)
(* wheel with both spokes is explored up to the hub's first publish, which *)
(* is where the spokes interleave with each other at teardown              *)
PublishLimit == IF n_spokes <= 1 THEN MaxPublish ELSE 1

(* the flag starts out set although nothing has been allocated            *)
WindowsConstructedAtInit_True == TRUE

(* SPCommunicator.__init__: self._windows_constructed = False              *)
WindowsConstructedAtInit == FALSE

(* ---------------- configuration ---------------- *)

(* the wrapped optimizer of a spoke, as far as the spoke looks at it:      *)
(* self.opt.multistage, isinstance(self.opt, Xhat_Eval), the keys present  *)
(* in self.opt.options with the values of two of them, self.opt.E1 and     *)
(* self.opt.E1_tolerance (probabilities in tenths)                         *)
ValidOpt ==
    [multistage |-> FALSE,
     is_Xhat_Eval |-> TRUE,
     options |-> {"verbose", "xhat_looper_options", "scen_limit"},
     bundles_per_rank |-> 0,
     rounding_bias |-> 0,
     E1 |-> 10,
     E1_tolerance |-> 0]

(* the parsed command line of a driver that passes its own checks          *)
ValidCfg ==
    [driver |-> "farmer",
     default_rho |-> 1,
     rho_setter |-> FALSE,
     sep_rho |-> FALSE,
     coeff_rho |-> FALSE,
     sensi_rho |-> FALSE,
     use_norm_rho_converger |-> FALSE,
     use_norm_rho_updater |-> FALSE]

(* no function call under study                                            *)
NoCall == [fn |-> "none"]

(* the replicas of the aggregation spoke before main(): nothing published, *)
(* nothing seen, no reduction entered                                      *)
ReplicasStart ==
    [hub |-> [c \in 0..1 |-> 0],
     kill |-> [c \in 0..1 |-> FALSE],
     pc |-> [c \in 0..1 |-> "kill_check"],
     seen |-> [c \in 0..1 |-> 0],
     entered |-> [c \in 0..1 |-> 0]]

(* the wheel as WheelSpinner and the role constructors leave it            *)
InitWheel ==
    /\ list_of_spoke_dict \in SUBSET SpokeDicts
    /\ is_minimizing \in BOOLEAN
    /\ windows_constructed = [r \in Ranks |-> FALSE]
    /\ hub_state = "SETUP"
    /\ hub_pc = "setup"
    /\ hub_iter = 0
    /\ hub_x = [i \in 1..NonantLen |-> NaN]
    /\ hub_cursor = <<0, 0>>
    /\ hub_buf = [s \in SpokeDicts |-> <<>>]
    /\ kill_buf = <<>>
    /\ hub_seen = [s \in SpokeDicts |-> 0]
    /\ BestInnerBound = IF is_minimizing THEN PosInf ELSE NegInf
    /\ best_source = 0
    /\ spoke_pc = [s \in SpokeDicts |-> "setup"]
    /\ spoke_buf = [s \in SpokeDicts |-> <<>>]
    /\ remote_write_id = [s \in SpokeDicts |-> 0]
    /\ localnonants = [s \in SpokeDicts |-> <<>>]
    /\ fixed = [s \in SpokeDicts |-> <<>>]
    /\ obj = [s \in SpokeDicts |-> NaN]
    /\ best_inner_bound = [s \in SpokeDicts |->
                               IF is_minimizing THEN PosInf ELSE NegInf]
    /\ acted = [s \in SpokeDicts |-> <<>>]
    /\ offered = [s \in SpokeDicts |-> {}]
    /\ passes_after_kill = [s \in SpokeDicts |-> 0]
    /\ kill_seen = [s \in SpokeDicts |-> FALSE]
    /\ post_done = {}
    /\ solution_written = {}
    /\ opt_exposed = {}
    /\ role_constructed = WindowsConstructedAtInit
    /\ role_live = [i \in SpokeDicts |-> FALSE]
    /\ role_buffers = [i \in SpokeDicts |-> <<>>]
    /\ role_recv = <<>>
    /\ role_seen = [i \in SpokeDicts |-> 0]
    /\ role_frees = [i \in SpokeDicts |-> 0]
    /\ role_length = 0
    /\ role_expected = 0
    /\ role_error = "none"
    /\ role_calls = 0
    /\ role_last_calls = <<"none", "none">>
    /\ published = [s \in SpokeDicts |-> <<>>]
    /\ torn_pass = [s \in SpokeDicts |-> FALSE]
    /\ torn_reported = [s \in SpokeDicts |-> NaN]
    /\ full_after = [s \in SpokeDicts |-> NaN]
    /\ raised = [r \in Ranks |-> "none"]
    /\ warmed_up = [s \in SpokeDicts |-> FALSE]
    /\ replica_pc = [s \in SpokeDicts |-> "looping"]
    /\ replicas = ReplicasStart

(* the driver has passed its checks and stands before wheel.spin()         *)
InitDriverDone ==
    /\ cfg = ValidCfg
    /\ driver_pc = "spin"
    /\ driver_error = "none"

InitNoCall ==
    /\ pure_call = NoCall
    /\ pure_result = [stage |-> "none"]

(* a run whose configuration passes every startup check                    *)
Init ==
    /\ InitWheel
    /\ opt = [s \in SpokeDicts |-> ValidOpt]
    /\ InitDriverDone
    /\ InitNoCall

(* the roles enter their loops although no window has been allocated      *)
MakeWindows_NoAllocation ==
    /\ hub_pc = "setup"
    /\ \A s \in Spokes : spoke_pc[s] = "setup"
    /\ hub_state' = "ITERATING"
    /\ hub_pc' = "step"
    /\ spoke_pc' = [s \in SpokeDicts |->
                       IF s \in Spokes THEN "prep" ELSE spoke_pc[s]]
    /\ UNCHANGED <<driverVars, tornVars, faultVars, list_of_spoke_dict, is_minimizing,
                   windows_constructed, hub_iter, hub_x, hub_cursor, hub_buf,
                   kill_buf, hub_seen, BestInnerBound, best_source, spoke_buf,
                   remote_write_id, localnonants, fixed, obj,
                   best_inner_bound, histVars>>

(* make_windows: collective over the strata communicator, every rank      *)
(* allocates its buffers together with the others                         *)
MakeWindows ==
    /\ hub_pc = "setup"
    /\ \A s \in Spokes : spoke_pc[s] = "setup"
    /\ hub_buf' = [s \in SpokeDicts |->
                      IF s \in Spokes THEN make_window(NonantLen) ELSE <<>>]
    /\ kill_buf' = make_window(KillLen)
    /\ spoke_buf' = [s \in SpokeDicts |->
                        IF s \in Spokes THEN make_window(BoundLen) ELSE <<>>]
    /\ localnonants' = [s \in SpokeDicts |->
                           IF s \in Spokes
                              THEN Payload(communicator_array(NonantLen))
                              ELSE <<>>]
    /\ windows_constructed' = [r \in Ranks |-> r = 0 \/ r \in Spokes]
    /\ hub_state' = "ITERATING"
    /\ hub_pc' = "step"
    /\ spoke_pc' = [s \in SpokeDicts |->
                       IF s \in Spokes THEN "prep" ELSE spoke_pc[s]]
    /\ UNCHANGED <<driverVars, tornVars, faultVars, list_of_spoke_dict, is_minimizing, hub_iter, hub_x, hub_cursor, hub_seen,
                   BestInnerBound, best_source, remote_write_id, fixed, obj,
                   best_inner_bound, histVars>>

(* ---------------- the hub ---------------- *)

(* strict improvement in the sense of an inner bound: lower when           *)
(* minimizing, higher when maximizing; a tie is not an improvement         *)
IsImproving(candidate, best) ==
    IF is_minimizing THEN candidate < best ELSE candidate > best

MinOf(S) == CHOOSE m \in S : \A n \in S : m <= n
MaxOf(S) == CHOOSE m \in S : \A n \in S : m >= n

(* ITERATING: one step of the wrapped primal algorithm gives new nonants   *)
HubStepFrom(V) ==
    /\ hub_state = "ITERATING"
    /\ hub_pc = "step"
    /\ hub_iter < PublishLimit
    /\ \E v \in V : hub_x' = v
    /\ hub_iter' = hub_iter + 1
    /\ IF Spokes = {}
          THEN /\ hub_pc' = "poll"
               /\ hub_cursor' = hub_cursor
          ELSE /\ hub_pc' = "write"
               /\ hub_cursor' = <<MinOf(Spokes), 1>>
    /\ UNCHANGED <<driverVars, tornVars, faultVars, list_of_spoke_dict, is_minimizing, windows_constructed, hub_state, hub_buf,
                   kill_buf, hub_seen, BestInnerBound, best_source, spokeVars, histVars>>

HubStep == HubStepFrom(NonantVectors)

(* the same step of a primal algorithm whose nonants move between two      *)
(* values from one iteration to the next                                   *)
TornVectors == [1..NonantLen -> {5, 10}]
TornHubStep == HubStepFrom(TornVectors)

(* publish, first half: the payload goes into the owner's slots one by one *)
HubWriteSlot ==
    /\ hub_pc = "write"
    /\ LET s == hub_cursor[1]
           i == hub_cursor[2]
       IN /\ hub_buf' = [hub_buf EXCEPT ![s][i] = hub_x[i]]
          /\ IF i < NonantLen
                THEN /\ hub_cursor' = <<s, i + 1>>
                     /\ hub_pc' = "write"
                ELSE /\ hub_cursor' = hub_cursor
                     /\ hub_pc' = "incr"
    /\ UNCHANGED <<driverVars, tornVars, faultVars, list_of_spoke_dict, is_minimizing, windows_constructed, hub_state, hub_iter,
                   hub_x, kill_buf, hub_seen, BestInnerBound, best_source, spokeVars,
                   histVars>>

(* publish, second half: the counter of that window goes up by one         *)
HubIncrCounter ==
    /\ hub_pc = "incr"
    /\ LET s == hub_cursor[1]
       IN /\ hub_buf' = [hub_buf EXCEPT ![s] = IncrementCounter(@)]
          /\ published' = [published EXCEPT ![s] = Payload(hub_buf[s])]
          /\ IF \E n \in Spokes : n > s
                THEN /\ hub_cursor' = <<MinOf({n \in Spokes : n > s}), 1>>
                     /\ hub_pc' = "write"
                ELSE /\ hub_cursor' = <<0, 0>>
                     /\ hub_pc' = "poll"
    /\ UNCHANGED <<driverVars, torn_pass, torn_reported, full_after, faultVars,
                   list_of_spoke_dict, is_minimizing, windows_constructed, hub_state, hub_iter,
                   hub_x, kill_buf, hub_seen, BestInnerBound, best_source, spokeVars,
                   histVars>>

(* a polled value that is as good as the tracked best replaces it too     *)
HubOverwrites_OnTie(v, b) ==
    IF is_minimizing THEN v <= b ELSE v >= b

(* an incoming value replaces the tracked best on strict improvement only  *)
HubOverwrites(v, b) == IsImproving(v, b)

(* the tracked best after reading the bound windows of spokes 1..n in turn *)
RECURSIVE PolledBest(_, _)
PolledBest(n, best) ==
    IF n = 0 THEN best
    ELSE LET b == PolledBest(n - 1, best)
             v == spoke_buf[n][1]
         IN IF n \in Spokes /\ HasNewData(spoke_buf[n], hub_seen[n])
                  /\ HubOverwrites(v, b)
               THEN v ELSE b

(* the spoke whose value the tracked best is after that round of reads     *)
RECURSIVE PolledSource(_, _, _)
PolledSource(n, best, source) ==
    IF n = 0 THEN source
    ELSE IF n \in Spokes /\ HasNewData(spoke_buf[n], hub_seen[n])
              /\ HubOverwrites(spoke_buf[n][1], PolledBest(n - 1, best))
            THEN n
            ELSE PolledSource(n - 1, best, source)

PolledSeen ==
    [s \in SpokeDicts |->
        IF s \in Spokes /\ HasNewData(spoke_buf[s], hub_seen[s])
           THEN WriteId(spoke_buf[s]) ELSE hub_seen[s]]

(* the poll is repeated until every spoke has answered with new data      *)
HubPoll_WaitsForNewData ==
    /\ hub_pc = "poll"
    /\ \A s \in Spokes : HasNewData(spoke_buf[s], hub_seen[s])
    /\ BestInnerBound' = PolledBest(MaxOf(SpokeDicts), BestInnerBound)
    /\ best_source' = PolledSource(MaxOf(SpokeDicts), BestInnerBound,
                                   best_source)
    /\ hub_seen' = PolledSeen
    /\ hub_pc' = "step"
    /\ UNCHANGED <<driverVars, tornVars, faultVars, list_of_spoke_dict, is_minimizing,
                   windows_constructed, hub_state, hub_iter, hub_x,
                   hub_cursor, hub_buf, kill_buf, spokeVars, histVars>>

(* poll: a one-shot remote read of every spoke's bound window              *)
HubPoll ==
    /\ hub_pc = "poll"
    /\ BestInnerBound' = PolledBest(MaxOf(SpokeDicts), BestInnerBound)
    /\ best_source' = PolledSource(MaxOf(SpokeDicts), BestInnerBound,
                                   best_source)
    /\ hub_seen' = PolledSeen
    /\ hub_pc' = "step"
    /\ UNCHANGED <<driverVars, tornVars, faultVars, list_of_spoke_dict, is_minimizing, windows_constructed, hub_state, hub_iter,
                   hub_x, hub_cursor, hub_buf, kill_buf, spokeVars, histVars>>

(* the convergence test is a pluggable predicate: it may hold at the top   *)
(* of any iteration, and the iteration limit makes it hold at the last     *)
HubConverge ==
    /\ hub_state = "ITERATING"
    /\ hub_pc = "step"
    /\ hub_state' = "CONVERGED"
    /\ hub_pc' = "kill"
    /\ UNCHANGED <<driverVars, tornVars, faultVars, list_of_spoke_dict, is_minimizing, windows_constructed, hub_iter, hub_x,
                   hub_cursor, hub_buf, kill_buf, hub_seen, BestInnerBound, best_source,
                   spokeVars, histVars>>

(* publish of the kill signal: flag into the slot, then the counter        *)
HubSendKill ==
    /\ hub_pc = "kill"
    /\ kill_buf' = [kill_buf EXCEPT ![1] = 1]
    /\ hub_pc' = "kill_incr"
    /\ UNCHANGED <<driverVars, tornVars, faultVars, list_of_spoke_dict, is_minimizing, windows_constructed, hub_state, hub_iter,
                   hub_x, hub_cursor, hub_buf, hub_seen, BestInnerBound, best_source,
                   spokeVars, histVars>>

HubKillIncr ==
    /\ hub_pc = "kill_incr"
    /\ kill_buf' = IncrementCounter(kill_buf)
    /\ hub_pc' = "wait"
    /\ UNCHANGED <<driverVars, tornVars, faultVars, list_of_spoke_dict, is_minimizing, windows_constructed, hub_state, hub_iter,
                   hub_x, hub_cursor, hub_buf, hub_seen, BestInnerBound, best_source,
                   spokeVars, histVars>>

KillPublished == Len(kill_buf) > 0 /\ WriteId(kill_buf) > 0

(* teardown: wait for the spokes to leave their loops, then collect what   *)
(* they reported last                                                      *)
HubFinalize ==
    /\ hub_pc = "wait"
    /\ \A s \in Spokes : spoke_pc[s] \in {"free", "returned"}
    /\ BestInnerBound' = PolledBest(MaxOf(SpokeDicts), BestInnerBound)
    /\ best_source' = PolledSource(MaxOf(SpokeDicts), BestInnerBound,
                                   best_source)
    /\ hub_seen' = PolledSeen
    /\ hub_pc' = "free"
    /\ UNCHANGED <<driverVars, tornVars, faultVars, list_of_spoke_dict, is_minimizing, windows_constructed, hub_state, hub_iter,
                   hub_x, hub_cursor, hub_buf, kill_buf, spokeVars, histVars>>

(* ---------------- the spoke role ---------------- *)

(* the kill window is compared with a last-seen counter of 1: the hub's   *)
(* single kill publish is not recognised                                   *)
got_kill_signal_LastSeenOne(kb) == HasNewData(kb, 1)

(* got_kill_signal: a poll of the hub's kill window, new data means kill   *)
got_kill_signal(kb) == HasNewData(kb, 0)

(* update_nonants / new_nonants: poll of the hub's outbound window; on new *)
(* data the payload is taken over and the counter remembered               *)
(* a counter equal to the last-seen one counts as new data                 *)
PollIsNew_NotStrict(s) == WriteId(hub_buf[s]) >= remote_write_id[s]

PollIsNew(s) == HasNewData(hub_buf[s], remote_write_id[s])

(* the fetched payload is neither the hub's last completed publish nor    *)
(* the one it is writing: slots of both are in it                          *)
Torn(s) ==
    /\ Payload(hub_buf[s]) # published[s]
    /\ Payload(hub_buf[s]) # hub_x

(* the fetched payload is taken over whatever the counter says            *)
PollEffect_TakesStale(s) ==
    /\ remote_write_id' = [remote_write_id EXCEPT ![s] = WriteId(hub_buf[s])]
    /\ localnonants' = [localnonants EXCEPT ![s] = Payload(hub_buf[s])]
    /\ torn_pass' = [torn_pass EXCEPT ![s] = Torn(s)]

PollEffect(s) ==
    IF PollIsNew(s)
       THEN /\ remote_write_id' = [remote_write_id EXCEPT ![s] = WriteId(hub_buf[s])]
            /\ localnonants' = [localnonants EXCEPT ![s] = Payload(hub_buf[s])]
            /\ torn_pass' = [torn_pass EXCEPT ![s] = Torn(s)]
       ELSE UNCHANGED <<remote_write_id, localnonants, torn_pass>>

(* update_if_improving: the new best, and whether a publish follows        *)
update_if_improving(best, value) ==
    IF IsImproving(value, best) THEN value ELSE best

Saturate(n) == IF n < 2 THEN n + 1 ELSE n

(* while not self.got_kill_signal(): the test at the top of every pass     *)
LoopTest(s) ==
    /\ spoke_pc[s] = "kill_check"
    /\ spoke_pc' = [spoke_pc EXCEPT ![s] =
                       IF got_kill_signal(kill_buf) THEN "free" ELSE "poll"]
    /\ passes_after_kill' = [passes_after_kill EXCEPT ![s] =
                       IF KillPublished THEN Saturate(@) ELSE @]
    /\ kill_seen' = [kill_seen EXCEPT ![s] = got_kill_signal(kill_buf)]
    /\ UNCHANGED <<driverVars, tornVars, faultVars, list_of_spoke_dict, is_minimizing, windows_constructed, hubVars, spoke_buf,
                   remote_write_id, localnonants, fixed, obj,
                   best_inner_bound, acted, offered>>

(* bookkeeping of a pass that reaches update_if_improving: a bound that    *)
(* is published from a torn payload is remembered, and so is the objective *)
(* of a later pass on a complete publish                                   *)
TornBookkeeping(s, publishes) ==
    IF torn_pass[s]
       THEN IF publishes
               THEN /\ torn_reported' = [torn_reported EXCEPT ![s] = obj[s]]
                    /\ full_after' = [full_after EXCEPT ![s] = NaN]
               ELSE UNCHANGED <<torn_reported, full_after>>
       ELSE /\ torn_reported' = torn_reported
            /\ full_after' = [full_after EXCEPT ![s] =
                                 IF torn_reported[s] # NaN THEN obj[s] ELSE @]

(* self.update_if_improving(obj), up to and including the payload write    *)
Report(s) ==
    /\ spoke_pc[s] = "report"
    /\ TornBookkeeping(s, IsImproving(obj[s], best_inner_bound[s]))
    /\ offered' = [offered EXCEPT ![s] = @ \cup {obj[s]}]
    /\ best_inner_bound' = [best_inner_bound EXCEPT ![s] =
                               update_if_improving(@, obj[s])]
    /\ IF IsImproving(obj[s], best_inner_bound[s])
          THEN /\ spoke_buf' = [spoke_buf EXCEPT ![s][1] = obj[s]]
               /\ spoke_pc' = [spoke_pc EXCEPT ![s] = "incr"]
          ELSE /\ spoke_buf' = spoke_buf
               /\ spoke_pc' = [spoke_pc EXCEPT ![s] = "kill_check"]
    /\ UNCHANGED <<driverVars, published, torn_pass, faultVars,
                   list_of_spoke_dict, is_minimizing, windows_constructed, hubVars,
                   remote_write_id, localnonants, fixed, obj, acted,
                   passes_after_kill, kill_seen>>

(* the counter increment that completes a spoke's publish                  *)
SpokeIncrCounter(s) ==
    /\ spoke_pc[s] = "incr"
    /\ spoke_buf' = [spoke_buf EXCEPT ![s] = IncrementCounter(@)]
    /\ spoke_pc' = [spoke_pc EXCEPT ![s] = "kill_check"]
    /\ UNCHANGED <<driverVars, tornVars, faultVars, list_of_spoke_dict, is_minimizing, windows_constructed, hubVars,
                   remote_write_id, localnonants, fixed, obj,
                   best_inner_bound, histVars>>

(* ---------------- aggregation spoke (slam_heuristic.py) ---------------- *)
(* the wheel's aggregation spoke is a SlamMaxHeuristic: numpy_op is np.amax *)

(* what ends a process: an exception that leaves main(), or quit()         *)
Exceptions == {"RuntimeError", "KeyError", "SolverError"}

Raise(s, e) ==
    /\ raised' = [raised EXCEPT ![s] = e]
    /\ spoke_pc' = [spoke_pc EXCEPT ![s] =
                       IF e = "SystemExit" THEN "exited" ELSE "raised"]

(* the preparation is run whatever the model and the optimizer are         *)
slam_heur_prep_NoChecks(s) ==
    /\ SpokeKind(s) = "slam"
    /\ spoke_pc[s] = "prep"
    /\ spoke_pc' = [spoke_pc EXCEPT ![s] = "kill_check"]
    /\ warmed_up' = [warmed_up EXCEPT ![s] = TRUE]
    /\ UNCHANGED <<driverVars, tornVars, opt, raised, replica_pc,
                   list_of_spoke_dict, is_minimizing, windows_constructed,
                   hubVars, spoke_buf, remote_write_id, localnonants, fixed,
                   obj, best_inner_bound, histVars>>

(* how slam_heur_prep ends: the two checks, then options['verbose']        *)
SlamPrepOutcome(o) ==
    IF o.multistage THEN "RuntimeError"
    ELSE IF ~o.is_Xhat_Eval THEN "RuntimeError"
    ELSE IF "verbose" \notin o.options THEN "KeyError"
    ELSE "none"

(* self.slam_heur_prep(), the first statement of main(): the checks, the   *)
(* read of options['verbose'], then _update_E1 and _lazy_create_solvers    *)
slam_heur_prep(s) ==
    /\ SpokeKind(s) = "slam"
    /\ spoke_pc[s] = "prep"
    /\ IF SlamPrepOutcome(opt[s]) # "none"
          THEN /\ Raise(s, SlamPrepOutcome(opt[s]))
               /\ warmed_up' = warmed_up
          ELSE /\ spoke_pc' = [spoke_pc EXCEPT ![s] = "kill_check"]
               /\ warmed_up' = [warmed_up EXCEPT ![s] = TRUE]
               /\ raised' = raised
    /\ UNCHANGED <<driverVars, tornVars, opt, replica_pc,
                   list_of_spoke_dict, is_minimizing, windows_constructed,
                   hubVars, spoke_buf, remote_write_id, localnonants, fixed,
                   obj, best_inner_bound, histVars>>

(* while True: the pass is run without looking at the kill signal         *)
SlamLoopTest_NoKillCheck(s) ==
    /\ SpokeKind(s) = "slam"
    /\ spoke_pc[s] = "kill_check"
    /\ spoke_pc' = [spoke_pc EXCEPT ![s] = "poll"]
    /\ passes_after_kill' = [passes_after_kill EXCEPT ![s] =
                       IF KillPublished THEN Saturate(@) ELSE @]
    /\ kill_seen' = kill_seen
    /\ UNCHANGED <<driverVars, tornVars, faultVars, list_of_spoke_dict, is_minimizing, windows_constructed,
                   hubVars, spoke_buf, remote_write_id, localnonants, fixed,
                   obj, best_inner_bound, acted, offered>>

SlamLoopTest(s) ==
    /\ SpokeKind(s) = "slam"
    /\ LoopTest(s)

(* else: break -- the loop is left when a pass finds no new nonants        *)
SlamUpdateNonants_BreakOnStale(s) ==
    /\ SpokeKind(s) = "slam"
    /\ spoke_pc[s] = "poll"
    /\ PollEffect(s)
    /\ IF PollIsNew(s)
          THEN /\ spoke_pc' = [spoke_pc EXCEPT ![s] = "allreduce"]
               /\ acted' = [acted EXCEPT ![s] = Append(@, WriteId(hub_buf[s]))]
          ELSE /\ spoke_pc' = [spoke_pc EXCEPT ![s] = "free"]
               /\ acted' = acted
    /\ UNCHANGED <<driverVars, published, torn_reported, full_after, faultVars,
                   list_of_spoke_dict, is_minimizing, windows_constructed,
                   hubVars, spoke_buf, fixed, obj, best_inner_bound, offered,
                   passes_after_kill, kill_seen>>

(* the body of the loop run on every pass, whatever update_nonants() says  *)
SlamUpdateNonants_Unguarded(s) ==
    /\ SpokeKind(s) = "slam"
    /\ spoke_pc[s] = "poll"
    /\ Len(acted[s]) <= MaxPublish
    /\ PollEffect(s)
    /\ spoke_pc' = [spoke_pc EXCEPT ![s] = "allreduce"]
    /\ acted' = [acted EXCEPT ![s] = Append(@, WriteId(hub_buf[s]))]
    /\ UNCHANGED <<driverVars, published, torn_reported, full_after, faultVars,
                   list_of_spoke_dict, is_minimizing, windows_constructed,
                   hubVars, spoke_buf, fixed, obj, best_inner_bound, offered,
                   passes_after_kill, kill_seen>>

(* if self.update_nonants(): ... else fall through to slam_iter += 1       *)
SlamUpdateNonants(s) ==
    /\ SpokeKind(s) = "slam"
    /\ spoke_pc[s] = "poll"
    /\ PollEffect(s)
    /\ IF PollIsNew(s)
          THEN /\ spoke_pc' = [spoke_pc EXCEPT ![s] = "allreduce"]
               /\ acted' = [acted EXCEPT ![s] = Append(@, WriteId(hub_buf[s]))]
          ELSE /\ spoke_pc' = [spoke_pc EXCEPT ![s] = "kill_check"]
               /\ acted' = acted
    /\ UNCHANGED <<driverVars, published, torn_reported, full_after, faultVars,
                   list_of_spoke_dict, is_minimizing, windows_constructed, hubVars, spoke_buf,
                   fixed, obj, best_inner_bound, offered, passes_after_kill,
                   kill_seen>>

Max2(a, b) == IF a >= b THEN a ELSE b

(* np.amax(nonant_matrix, axis=0) of the num_scen x num_vars reshape       *)
RECURSIVE ColumnMax(_, _, _)
ColumnMax(flat, col, rows) ==
    IF rows = 1 THEN flat[col]
    ELSE Max2(ColumnMax(flat, col, rows - 1), flat[(rows - 1) * num_vars + col])

extract_local_candidate_soln(flat) ==
    [col \in 1..num_vars |-> ColumnMax(flat, col, num_scen)]

(* numpy_op and mpi_op of the two heuristics: np.amax with MPI.MAX for     *)
(* SlamMaxHeuristic, np.amin with MPI.MIN for SlamMinHeuristic            *)
Heuristics == {"SlamMaxHeuristic", "SlamMinHeuristic"}

numpy_op(h, a, b) ==
    IF h = "SlamMaxHeuristic" THEN Max2(a, b)
    ELSE IF a <= b THEN a ELSE b

(* the collective reduction done with the operator of the other heuristic  *)
mpi_op_Swapped(h, a, b) ==
    IF h = "SlamMaxHeuristic" THEN (IF a <= b THEN a ELSE b)
    ELSE Max2(a, b)

mpi_op(h, a, b) ==
    IF h = "SlamMaxHeuristic" THEN Max2(a, b)
    ELSE IF a <= b THEN a ELSE b

(* numpy_op(nonant_matrix, axis=0)[col] of a matrix given as its rows      *)
RECURSIVE ColumnReduce(_, _, _, _)
ColumnReduce(h, rows, col, n) ==
    IF n = 1 THEN rows[1][col]
    ELSE numpy_op(h, ColumnReduce(h, rows, col, n - 1), rows[n][col])

LocalCandidate(h, rows) ==
    [col \in 1..Len(rows[1]) |-> ColumnReduce(h, rows, col, Len(rows))]

(* comm.Allreduce(local_candidate, global_candidate, op=mpi_op)[col] over  *)
(* the local candidates of the replicas, taken in rank order               *)
RECURSIVE AllreduceColumn(_, _, _, _)
AllreduceColumn(h, locals, col, n) ==
    IF n = 1 THEN locals[1][col]
    ELSE mpi_op(h, AllreduceColumn(h, locals, col, n - 1), locals[n][col])

Allreduce(h, locals) ==
    [col \in 1..Len(locals[1]) |->
        AllreduceColumn(h, locals, col, Len(locals))]

(* the value is cut off at the integer below                               *)
round_Truncate(x) == (x \div 10) * 10

(* Python's round() on a value held in tenths: nearest, ties to even       *)
round(x) ==
    LET q == x \div 10
        r == x % 10
    IN IF r < 5 THEN q * 10
       ELSE IF r > 5 THEN (q + 1) * 10
       ELSE IF q % 2 = 0 THEN q * 10 ELSE (q + 1) * 10

rounding_bias == 0       \* the default of options.get("rounding_bias", 0.0)

(* self.opt.options.get("rounding_bias", 0.0)                              *)
RoundingBias(o) ==
    IF "rounding_bias" \in o.options THEN o.rounding_bias ELSE rounding_bias

(* the value a nonant is fixed to: rounded when the variable is binary or  *)
(* integer, the candidate itself otherwise                                 *)
FixValue(val, is_binary, is_integer, bias) ==
    IF is_binary \/ is_integer THEN round(val + bias) ELSE val

(* Allreduce over the replicas of the spoke (one per cylinder rank here),  *)
(* rounding and fixing of the nonants, which are integer variables in the  *)
(* wheel, then calculate_incumbent                                         *)
SlamAllreduce(s) ==
    /\ SpokeKind(s) = "slam"
    /\ spoke_pc[s] = "allreduce"
    /\ LET global_candidate == extract_local_candidate_soln(localnonants[s])
       IN fixed' = [fixed EXCEPT ![s] =
                       [ix \in 1..num_vars |->
                           FixValue(global_candidate[ix], FALSE, TRUE,
                                    RoundingBias(opt[s]))]]
    /\ \E v \in ObjValues : obj' = [obj EXCEPT ![s] = v]
    /\ spoke_pc' = [spoke_pc EXCEPT ![s] = "report"]
    /\ UNCHANGED <<driverVars, tornVars, faultVars, list_of_spoke_dict, is_minimizing, windows_constructed, hubVars, spoke_buf,
                   remote_write_id, localnonants, best_inner_bound, histVars>>

(* the objective published as the bound directly, not through             *)
(* update_if_improving                                                     *)
SlamReport_AlwaysPublish(s) ==
    /\ SpokeKind(s) = "slam"
    /\ spoke_pc[s] = "report"
    /\ TornBookkeeping(s, TRUE)
    /\ offered' = [offered EXCEPT ![s] = @ \cup {obj[s]}]
    /\ best_inner_bound' = [best_inner_bound EXCEPT ![s] = obj[s]]
    /\ spoke_buf' = [spoke_buf EXCEPT ![s][1] = obj[s]]
    /\ spoke_pc' = [spoke_pc EXCEPT ![s] = "incr"]
    /\ UNCHANGED <<driverVars, published, torn_pass, faultVars,
                   list_of_spoke_dict, is_minimizing, windows_constructed,
                   hubVars, remote_write_id, localnonants, fixed, obj, acted,
                   passes_after_kill, kill_seen>>

SlamReport(s) ==
    /\ SpokeKind(s) = "slam"
    /\ Report(s)

(* ---------------- look-ahead spoke (xhatlooper_bounder.py) ------------- *)

(* the warm-up is run whatever the options and the optimizer are          *)
xhatlooper_prep_NoChecks(s) ==
    /\ SpokeKind(s) = "xhat"
    /\ spoke_pc[s] = "prep"
    /\ spoke_pc' = [spoke_pc EXCEPT ![s] = "kill_check"]
    /\ warmed_up' = [warmed_up EXCEPT ![s] = TRUE]
    /\ UNCHANGED <<driverVars, tornVars, opt, raised, replica_pc,
                   list_of_spoke_dict, is_minimizing, windows_constructed,
                   hubVars, spoke_buf, remote_write_id, localnonants, fixed,
                   obj, best_inner_bound, histVars>>

Abs(x) == IF x >= 0 THEN x ELSE 0 - x

(* if "bundles_per_rank" in options and options["bundles_per_rank"] != 0   *)
HasBundles(o) ==
    "bundles_per_rank" \in o.options /\ o.bundles_per_rank # 0

(* if abs(1 - self.opt.E1) > self.opt.E1_tolerance, in tenths              *)
E1Fails(o) == Abs(10 - o.E1) > o.E1_tolerance

(* options['xhat_looper_options']['scen_limit'] finds both keys            *)
HasScenLimit(o) ==
    "xhat_looper_options" \in o.options /\ "scen_limit" \in o.options

(* how the start of main() ends: the two checks of xhatlooper_prep, its    *)
(* warm-up with the test of E1 and quit(), then the read of scen_limit     *)
XhatPrepOutcome(o) ==
    IF HasBundles(o) THEN "RuntimeError"
    ELSE IF ~o.is_Xhat_Eval THEN "RuntimeError"
    ELSE IF E1Fails(o) THEN "SystemExit"
    ELSE IF ~HasScenLimit(o) THEN "KeyError"
    ELSE "none"

(* the warm-up (XhatLooper, pre_iter0, _save_original_nonants,             *)
(* _lazy_create_solvers, _update_E1) runs once the two checks have passed  *)
XhatWarmsUp(o) == ~HasBundles(o) /\ o.is_Xhat_Eval

(* the start of main(): xhatter = self.xhatlooper_prep() and the read of   *)
(* scen_limit that follows it, up to the loop                              *)
xhatlooper_prep(s) ==
    /\ SpokeKind(s) = "xhat"
    /\ spoke_pc[s] = "prep"
    /\ warmed_up' = [warmed_up EXCEPT ![s] = XhatWarmsUp(opt[s])]
    /\ IF XhatPrepOutcome(opt[s]) # "none"
          THEN Raise(s, XhatPrepOutcome(opt[s]))
          ELSE /\ spoke_pc' = [spoke_pc EXCEPT ![s] = "kill_check"]
               /\ raised' = raised
    /\ UNCHANGED <<driverVars, tornVars, opt, replica_pc,
                   list_of_spoke_dict, is_minimizing, windows_constructed,
                   hubVars, spoke_buf, remote_write_id, localnonants, fixed,
                   obj, best_inner_bound, histVars>>

(* the loop tests the answer of the previous pass, so one more pass runs   *)
(* after got_kill_signal() has returned True                               *)
XhatLoopTest_StaleFlag(s) ==
    /\ SpokeKind(s) = "xhat"
    /\ spoke_pc[s] = "kill_check"
    /\ spoke_pc' = [spoke_pc EXCEPT ![s] =
                       IF kill_seen[s] THEN "free" ELSE "poll"]
    /\ passes_after_kill' = [passes_after_kill EXCEPT ![s] =
                       IF KillPublished THEN Saturate(@) ELSE @]
    /\ kill_seen' = [kill_seen EXCEPT ![s] = got_kill_signal(kill_buf)]
    /\ UNCHANGED <<driverVars, tornVars, faultVars, list_of_spoke_dict, is_minimizing, windows_constructed,
                   hubVars, spoke_buf, remote_write_id, localnonants, fixed,
                   obj, best_inner_bound, acted, offered>>

XhatLoopTest(s) ==
    /\ SpokeKind(s) = "xhat"
    /\ LoopTest(s)

(* the look-ahead run on every pass, whatever new_nonants says             *)
XhatNewNonants_Unguarded(s) ==
    /\ SpokeKind(s) = "xhat"
    /\ spoke_pc[s] = "poll"
    /\ Len(acted[s]) <= MaxPublish
    /\ PollEffect(s)
    /\ fixed' = [fixed EXCEPT ![s] = localnonants'[s]]
    /\ \E v \in ObjValues : obj' = [obj EXCEPT ![s] = v]
    /\ spoke_pc' = [spoke_pc EXCEPT ![s] = "report"]
    /\ acted' = [acted EXCEPT ![s] = Append(@, WriteId(hub_buf[s]))]
    /\ UNCHANGED <<driverVars, published, torn_reported, full_after, faultVars,
                   list_of_spoke_dict, is_minimizing, windows_constructed,
                   hubVars, spoke_buf, best_inner_bound, offered,
                   passes_after_kill, kill_seen>>

(* if self.new_nonants: cache push, restore, xhat_looper                   *)
XhatNewNonants(s) ==
    /\ SpokeKind(s) = "xhat"
    /\ spoke_pc[s] = "poll"
    /\ PollEffect(s)
    /\ IF PollIsNew(s)
          THEN /\ fixed' = [fixed EXCEPT ![s] = localnonants'[s]]
               /\ \E v \in ObjValues : obj' = [obj EXCEPT ![s] = v]
               /\ spoke_pc' = [spoke_pc EXCEPT ![s] = "report"]
               /\ acted' = [acted EXCEPT ![s] = Append(@, WriteId(hub_buf[s]))]
          ELSE /\ spoke_pc' = [spoke_pc EXCEPT ![s] = "kill_check"]
               /\ UNCHANGED <<fixed, obj, acted>>
    /\ UNCHANGED <<driverVars, published, torn_reported, full_after, faultVars,
                   list_of_spoke_dict, is_minimizing, windows_constructed, hubVars, spoke_buf,
                   best_inner_bound, offered, passes_after_kill, kill_seen>>

(* the upper bound written into the window before update_if_improving     *)
(* has judged it                                                           *)
XhatReport_BoundFirst(s) ==
    /\ SpokeKind(s) = "xhat"
    /\ spoke_pc[s] = "report"
    /\ TornBookkeeping(s, IsImproving(obj[s], best_inner_bound[s]))
    /\ offered' = [offered EXCEPT ![s] = @ \cup {obj[s]}]
    /\ best_inner_bound' = [best_inner_bound EXCEPT ![s] =
                               update_if_improving(@, obj[s])]
    /\ spoke_buf' = [spoke_buf EXCEPT ![s][1] = obj[s]]
    /\ spoke_pc' = [spoke_pc EXCEPT ![s] =
                       IF IsImproving(obj[s], best_inner_bound[s])
                          THEN "incr" ELSE "kill_check"]
    /\ UNCHANGED <<driverVars, published, torn_pass, faultVars,
                   list_of_spoke_dict, is_minimizing, windows_constructed,
                   hubVars, remote_write_id, localnonants, fixed, obj, acted,
                   passes_after_kill, kill_seen>>

(* the upper bound taken as the new best whatever its value                *)
XhatReport_AlwaysPublish(s) ==
    /\ SpokeKind(s) = "xhat"
    /\ spoke_pc[s] = "report"
    /\ TornBookkeeping(s, TRUE)
    /\ offered' = [offered EXCEPT ![s] = @ \cup {obj[s]}]
    /\ best_inner_bound' = [best_inner_bound EXCEPT ![s] = obj[s]]
    /\ spoke_buf' = [spoke_buf EXCEPT ![s][1] = obj[s]]
    /\ spoke_pc' = [spoke_pc EXCEPT ![s] = "incr"]
    /\ UNCHANGED <<driverVars, published, torn_pass, faultVars,
                   list_of_spoke_dict, is_minimizing, windows_constructed,
                   hubVars, remote_write_id, localnonants, fixed, obj, acted,
                   passes_after_kill, kill_seen>>

XhatReport(s) ==
    /\ SpokeKind(s) = "xhat"
    /\ Report(s)

(* ---------------- teardown ---------------- *)

(* each rank leaves free_windows on its own, without the other ranks       *)
FreeWindows_NoBarrier ==
    /\ \/ /\ hub_pc = "free"
          /\ hub_pc' = "returned"
          /\ hub_state' = "FINALIZED"
          /\ windows_constructed' = [windows_constructed EXCEPT ![0] = FALSE]
          /\ UNCHANGED spoke_pc
       \/ \E s \in Spokes :
             /\ spoke_pc[s] = "free"
             /\ spoke_pc' = [spoke_pc EXCEPT ![s] = "returned"]
             /\ windows_constructed' = [windows_constructed EXCEPT ![s] = FALSE]
             /\ UNCHANGED <<hub_pc, hub_state>>
    /\ UNCHANGED <<driverVars, tornVars, faultVars, list_of_spoke_dict, is_minimizing, hub_iter, hub_x,
                   hub_cursor, hub_buf, kill_buf, hub_seen, BestInnerBound, best_source,
                   spoke_buf, remote_write_id, localnonants, fixed, obj,
                   best_inner_bound, histVars>>

(* the windows are freed right after the kill publish: the hub neither    *)
(* waits for the spokes' loops nor collects what they reported last        *)
FreeWindows_BeforeSummaries ==
    /\ hub_pc = "wait"
    /\ \A s \in Spokes : spoke_pc[s] = "free"
    /\ hub_buf' = [s \in SpokeDicts |-> <<>>]
    /\ kill_buf' = <<>>
    /\ spoke_buf' = [s \in SpokeDicts |-> <<>>]
    /\ windows_constructed' = [r \in Ranks |-> FALSE]
    /\ hub_state' = "FINALIZED"
    /\ hub_pc' = "returned"
    /\ spoke_pc' = [s \in SpokeDicts |->
                       IF s \in Spokes THEN "returned" ELSE spoke_pc[s]]
    /\ UNCHANGED <<driverVars, tornVars, faultVars, list_of_spoke_dict, is_minimizing, hub_iter,
                   hub_x, hub_cursor, hub_seen, BestInnerBound, best_source,
                   remote_write_id, localnonants, fixed, obj,
                   best_inner_bound, histVars>>

(* for i in range(self.n_spokes - 1): the window of the last spoke is     *)
(* never released                                                          *)
FreeWindows_AllButLast ==
    /\ hub_pc = "free"
    /\ \A s \in Spokes : spoke_pc[s] = "free"
    /\ hub_buf' = [s \in SpokeDicts |->
                      IF s \in Spokes /\ s = MaxOf(Spokes) THEN hub_buf[s]
                      ELSE <<>>]
    /\ kill_buf' = <<>>
    /\ spoke_buf' = [s \in SpokeDicts |->
                        IF s \in Spokes /\ s = MaxOf(Spokes) THEN spoke_buf[s]
                        ELSE <<>>]
    /\ windows_constructed' = [r \in Ranks |-> FALSE]
    /\ hub_state' = "FINALIZED"
    /\ hub_pc' = "returned"
    /\ spoke_pc' = [s \in SpokeDicts |->
                       IF s \in Spokes THEN "returned" ELSE spoke_pc[s]]
    /\ UNCHANGED <<driverVars, tornVars, faultVars, list_of_spoke_dict, is_minimizing, hub_iter, hub_x, hub_cursor, hub_seen,
                   BestInnerBound, best_source, remote_write_id, localnonants, fixed, obj,
                   best_inner_bound, histVars>>

(* free_windows: every rank frees its windows, collectively, and drops     *)
(* its buffers; this ends spin() on every rank                             *)
FreeWindows ==
    /\ hub_pc = "free"
    /\ \A s \in Spokes : spoke_pc[s] = "free"
    /\ hub_buf' = [s \in SpokeDicts |-> <<>>]
    /\ kill_buf' = <<>>
    /\ spoke_buf' = [s \in SpokeDicts |-> <<>>]
    /\ windows_constructed' = [r \in Ranks |-> FALSE]
    /\ hub_state' = "FINALIZED"
    /\ hub_pc' = "returned"
    /\ spoke_pc' = [s \in SpokeDicts |->
                       IF s \in Spokes THEN "returned" ELSE spoke_pc[s]]
    /\ UNCHANGED <<driverVars, tornVars, faultVars, list_of_spoke_dict, is_minimizing, hub_iter, hub_x, hub_cursor, hub_seen,
                   BestInnerBound, best_source, remote_write_id, localnonants, fixed, obj,
                   best_inner_bound, histVars>>

(* ---------------- the driver after spin() ---------------- *)

SpinReturned(r) ==
    IF r[1] = 0 THEN hub_pc = "returned" ELSE spoke_pc[r[1]] = "returned"

(* write_first_stage_solution / write_tree_solution hand the solution to   *)
(* the writers on the process that hosts the hub of cylinder rank zero     *)
WritesSolution(r) == r[1] = 0 /\ r[2] = 0

(* the guard is inverted: the bound ranks take the optimizer               *)
ExposesOpt_BoundRanks(r) == r[1] # 0

(* no guard: every rank takes wheel.spcomm.opt                             *)
ExposesOpt_EveryRank(r) == TRUE

(* if wheel.strata_rank == 0:  # don't do this for bound ranks             *)
ExposesOpt(r) == r[1] = 0

(* the code of the driver that follows wheel.spin() on one rank            *)
PostSpin(r) ==
    /\ r \notin post_done
    /\ SpinReturned(r)
    /\ post_done' = post_done \cup {r}
    /\ solution_written' = IF WritesSolution(r)
                              THEN solution_written \cup {r}
                              ELSE solution_written
    /\ opt_exposed' = IF ExposesOpt(r)
                         THEN opt_exposed \cup {r}
                         ELSE opt_exposed
    /\ UNCHANGED <<sideVars, tornVars, faultVars, list_of_spoke_dict,
                   is_minimizing, windows_constructed, hubVars, spokeVars,
                   histVars>>

Next ==
    \/ MakeWindows
    \/ HubStep
    \/ HubWriteSlot
    \/ HubIncrCounter
    \/ HubPoll
    \/ HubConverge
    \/ HubSendKill
    \/ HubKillIncr
    \/ HubFinalize
    \/ \E s \in Spokes : slam_heur_prep(s)
    \/ \E s \in Spokes : SlamLoopTest(s)
    \/ \E s \in Spokes : SlamUpdateNonants(s)
    \/ \E s \in Spokes : SlamAllreduce(s)
    \/ \E s \in Spokes : SlamReport(s)
    \/ \E s \in Spokes : xhatlooper_prep(s)
    \/ \E s \in Spokes : XhatLoopTest(s)
    \/ \E s \in Spokes : XhatNewNonants(s)
    \/ \E s \in Spokes : XhatReport(s)
    \/ \E s \in Spokes : SpokeIncrCounter(s)
    \/ FreeWindows
    \/ \E r \in GlobalRanks : PostSpin(r)

Spec == Init /\ [][Next]_vars

(* the wheel around a hub whose successive nonant vectors differ: a poll   *)
(* that falls between two slot writes of a publish fetches a mixed payload *)
TornNext ==
    \/ TornHubStep
    \/ Next

TornSpec == Init /\ [][TornNext]_vars

(* every rank is a process of its own and keeps running: the hub's steps   *)
(* and each spoke's steps are taken when they stay possible                *)
HubNext ==
    \/ MakeWindows
    \/ HubStep
    \/ HubWriteSlot
    \/ HubIncrCounter
    \/ HubPoll
    \/ HubConverge
    \/ HubSendKill
    \/ HubKillIncr
    \/ HubFinalize
    \/ FreeWindows

SpokeNext(s) ==
    \/ slam_heur_prep(s)
    \/ SlamLoopTest(s)
    \/ SlamUpdateNonants(s)
    \/ SlamAllreduce(s)
    \/ SlamReport(s)
    \/ xhatlooper_prep(s)
    \/ XhatLoopTest(s)
    \/ XhatNewNonants(s)
    \/ XhatReport(s)
    \/ SpokeIncrCounter(s)

FairSpec ==
    /\ Init /\ [][Next]_vars
    /\ WF_vars(HubNext)
    /\ \A s \in SpokeDicts : WF_vars(SpokeNext(s))
    /\ \A r \in Ranks \X CylinderRanks : WF_vars(PostSpin(r))

(* only the hub process is taken to keep running: a spoke may be slow or   *)
(* take no step at all                                                     *)
HubFairSpec ==
    /\ Init /\ [][Next]_vars
    /\ WF_vars(HubNext)

(* ---------------- failing configurations and failing solves ---------- *)
(* The wheel for every configuration of its spokes, valid or not, and with *)
(* solves of the wrapped optimizer that may fail. An exception that leaves *)
(* main() of a rank ends its process and propagates: the whole distributed *)
(* run is terminated. quit() ends the calling process only, as a regular   *)
(* exit.                                                                   *)

SlamOpts ==
    {[ValidOpt EXCEPT !.multistage = m, !.is_Xhat_Eval = x, !.options = k] :
        m \in BOOLEAN, x \in BOOLEAN,
        k \in {ValidOpt.options, ValidOpt.options \ {"verbose"}}}

XhatKeySets ==
    {ValidOpt.options,
     ValidOpt.options \ {"scen_limit"},
     ValidOpt.options \cup {"bundles_per_rank"},
     (ValidOpt.options \cup {"bundles_per_rank"}) \ {"scen_limit"}}

(* E1 and E1_tolerance, in tenths: exact, off by more than the tolerance,  *)
(* off by the tolerance                                                    *)
E1Cases == {<<10, 0>>, <<9, 0>>, <<9, 1>>}

XhatOpts ==
    {o \in {[ValidOpt EXCEPT !.is_Xhat_Eval = x, !.options = k,
                             !.bundles_per_rank = b, !.E1 = e[1],
                             !.E1_tolerance = e[2]] :
                x \in BOOLEAN, k \in XhatKeySets, b \in 0..1,
                e \in E1Cases} :
        "bundles_per_rank" \notin o.options => o.bundles_per_rank = 0}

(* every configuration of a wheel with one spoke; in the wheel with both  *)
(* spokes one of the two has the valid configuration                       *)
ConfigInit ==
    /\ InitWheel
    /\ \E a \in SlamOpts, b \in XhatOpts :
          /\ n_spokes = 2 => (a = ValidOpt \/ b = ValidOpt)
          /\ opt = [s \in SpokeDicts |->
                       IF s \notin Spokes THEN ValidOpt
                       ELSE IF SpokeKind(s) = "slam" THEN a ELSE b]
    /\ InitDriverDone
    /\ InitNoCall

(* the process of a rank has ended, one way or another                     *)
Ended == {"raised", "exited", "aborted", "returned"}

(* calculate_incumbent raises: the nonants are fixed, no objective comes   *)
SlamIncumbentFails(s) ==
    /\ SpokeKind(s) = "slam"
    /\ spoke_pc[s] = "allreduce"
    /\ LET global_candidate == extract_local_candidate_soln(localnonants[s])
       IN fixed' = [fixed EXCEPT ![s] =
                       [ix \in 1..num_vars |->
                           FixValue(global_candidate[ix], FALSE, TRUE,
                                    RoundingBias(opt[s]))]]
    /\ Raise(s, "SolverError")
    /\ UNCHANGED <<driverVars, tornVars, opt, warmed_up, replica_pc,
                   list_of_spoke_dict, is_minimizing, windows_constructed,
                   hubVars, spoke_buf, remote_write_id, localnonants, obj,
                   best_inner_bound, histVars>>

(* xhat_looper raises on the nonants the pass has just taken over          *)
XhatLooperFails(s) ==
    /\ SpokeKind(s) = "xhat"
    /\ spoke_pc[s] = "poll"
    /\ PollIsNew(s)
    /\ PollEffect(s)
    /\ fixed' = [fixed EXCEPT ![s] = localnonants'[s]]
    /\ acted' = [acted EXCEPT ![s] = Append(@, WriteId(hub_buf[s]))]
    /\ Raise(s, "SolverError")
    /\ UNCHANGED <<driverVars, published, torn_reported, full_after, opt,
                   warmed_up, replica_pc, list_of_spoke_dict, is_minimizing,
                   windows_constructed, hubVars, spoke_buf, obj,
                   best_inner_bound, offered, passes_after_kill, kill_seen>>

(* the step of the hub's primal algorithm raises                           *)
HubStepFails ==
    /\ hub_state = "ITERATING"
    /\ hub_pc = "step"
    /\ hub_iter < PublishLimit
    /\ hub_pc' = "raised"
    /\ raised' = [raised EXCEPT ![0] = "SolverError"]
    /\ UNCHANGED <<driverVars, tornVars, opt, warmed_up, replica_pc,
                   list_of_spoke_dict, is_minimizing, windows_constructed,
                   hub_state, hub_iter, hub_x, hub_cursor, hub_buf, kill_buf,
                   hub_seen, BestInnerBound, best_source, spokeVars,
                   histVars>>

(* the replica of a failed aggregation spoke goes on with its own hub and  *)
(* enters the Allreduce of its next pass, which its partner never joins    *)
ReplicaBlocks(s) ==
    /\ SpokeKind(s) = "slam"
    /\ raised[s] = "SolverError"
    /\ replica_pc[s] = "looping"
    /\ replica_pc' = [replica_pc EXCEPT ![s] = "allreduce"]
    /\ UNCHANGED <<driverVars, tornVars, opt, raised, warmed_up,
                   list_of_spoke_dict, is_minimizing, windows_constructed,
                   hubVars, spokeVars, histVars>>

(* the exception has left main() and spin() of one rank, and nothing ends  *)
(* the processes of the other ranks                                        *)
Abort_OnlyFailingRank ==
    /\ \E r \in Ranks : raised[r] \in Exceptions
    /\ \E s \in Spokes : replica_pc[s] = "looping"
    /\ replica_pc' = [s \in SpokeDicts |->
                         IF s \in Spokes /\ raised[s] \in Exceptions
                            THEN "aborted" ELSE replica_pc[s]]
    /\ replica_pc' # replica_pc
    /\ UNCHANGED <<driverVars, tornVars, opt, raised, warmed_up,
                   list_of_spoke_dict, is_minimizing, windows_constructed,
                   hubVars, spokeVars, histVars>>

(* an exception that has left main() of a rank terminates the distributed  *)
(* run: every process that has not ended is ended                          *)
Abort ==
    /\ \E r \in Ranks : raised[r] \in Exceptions
    /\ \/ hub_pc \notin Ended
       \/ \E s \in Spokes : spoke_pc[s] \notin Ended
       \/ \E s \in Spokes : replica_pc[s] # "aborted"
    /\ hub_pc' = IF hub_pc \in Ended THEN hub_pc ELSE "aborted"
    /\ spoke_pc' = [s \in SpokeDicts |->
                       IF s \in Spokes /\ spoke_pc[s] \notin Ended
                          THEN "aborted" ELSE spoke_pc[s]]
    /\ replica_pc' = [s \in SpokeDicts |->
                         IF s \in Spokes THEN "aborted" ELSE replica_pc[s]]
    /\ UNCHANGED <<driverVars, tornVars, opt, raised, warmed_up,
                   list_of_spoke_dict, is_minimizing, windows_constructed,
                   hub_state, hub_iter, hub_x, hub_cursor, hub_buf, kill_buf,
                   hub_seen, BestInnerBound, best_source, spoke_buf,
                   remote_write_id, localnonants, fixed, obj,
                   best_inner_bound, histVars>>

(* no exception has left main() of any rank                               *)
NoException == \A r \in Ranks : raised[r] \notin Exceptions

(* the termination of the run is the next thing that happens to the ranks  *)
(* of the wheel once an exception has left main() of one of them           *)
FaultNext ==
    \/ NoException /\ Next
    \/ \E s \in Spokes : SlamIncumbentFails(s)
    \/ \E s \in Spokes : XhatLooperFails(s)
    \/ HubStepFails
    \/ \E s \in Spokes : ReplicaBlocks(s)
    \/ Abort

(* every process keeps running while it can, and the termination of the    *)
(* run follows an exception; no solve has to fail                          *)
FaultSpec ==
    /\ ConfigInit /\ [][FaultNext]_vars
    /\ WF_vars(HubNext)
    /\ \A s \in SpokeDicts : WF_vars(SpokeNext(s))
    /\ \A r \in Ranks \X CylinderRanks : WF_vars(PostSpin(r))
    /\ WF_vars(Abort)

(* ---------------- one role object under any driver ---------------- *)
(* The wheel calls make_windows, publish, poll and free_windows in the     *)
(* order of the protocol. Below a driver makes these calls on one role     *)
(* object (hub or spoke) in any order, up to MaxCalls of them; a call      *)
(* that raises ends the process. The role has one window per spoke of the  *)
(* wheel, self.windows[i] for i in range(self.n_spokes).                   *)

wheelVars == <<list_of_spoke_dict, is_minimizing, windows_constructed,
               hubVars, spokeVars, histVars, post_done, solution_written,
               opt_exposed, tornVars, faultVars>>

RoleWindows == 1..n_spokes

RoleCanCall == role_error = "none" /\ role_calls < MaxCalls

(* bookkeeping of a call: it is counted and remembered                     *)
RoleCalled(name) ==
    /\ role_calls' = role_calls + 1
    /\ role_last_calls' = <<role_last_calls[2], name>>

(* the windows are allocated whatever the two sides take the length to be  *)
RoleMakeWindows_NoLengthCheck ==
    /\ RoleCanCall
    /\ \A i \in SpokeDicts : ~role_live[i]
    /\ RoleCalled("make_windows")
    /\ \E length \in 0..MaxLen, expected \in 0..MaxLen :
          /\ role_length' = length
          /\ role_expected' = expected
          /\ role_buffers' = [i \in SpokeDicts |->
                 IF i \in RoleWindows THEN make_window(length) ELSE <<>>]
          /\ role_live' = [i \in SpokeDicts |-> i \in RoleWindows]
          /\ role_recv' = communicator_array(expected)
          /\ role_seen' = [i \in SpokeDicts |-> 0]
          /\ role_frees' = [i \in SpokeDicts |-> 0]
          /\ role_constructed' = TRUE
          /\ role_error' = "none"
    /\ UNCHANGED <<wheelVars, setupVars, pureVars, replicaVars>>

(* make_windows of a role: the length the writer allocates with and the    *)
(* length the reading side expects are compared first; then one window per *)
(* spoke and the receive array are set up                                  *)
RoleMakeWindows ==
    /\ RoleCanCall
    /\ \A i \in SpokeDicts : ~role_live[i]
    /\ RoleCalled("make_windows")
    /\ \E length \in 0..MaxLen, expected \in 0..MaxLen :
          /\ role_length' = length
          /\ role_expected' = expected
          /\ IF length # expected
                THEN /\ role_error' = "config"
                     /\ UNCHANGED <<role_constructed, role_live, role_buffers,
                                    role_recv, role_seen, role_frees>>
                ELSE /\ role_buffers' = [i \in SpokeDicts |->
                            IF i \in RoleWindows THEN make_window(length)
                                                ELSE <<>>]
                     /\ role_live' = [i \in SpokeDicts |-> i \in RoleWindows]
                     /\ role_recv' = communicator_array(expected)
                     /\ role_seen' = [i \in SpokeDicts |-> 0]
                     /\ role_frees' = [i \in SpokeDicts |-> 0]
                     /\ role_constructed' = TRUE
                     /\ role_error' = "none"
    /\ UNCHANGED <<wheelVars, setupVars, pureVars, replicaVars>>

(* free_windows without the test of the flag: Free() is called on windows  *)
(* that were never made or are gone already                                *)
RoleFreeWindows_NoGuard ==
    /\ RoleCanCall
    /\ RoleCalled("free_windows")
    /\ IF \A i \in RoleWindows : role_live[i]
          THEN /\ role_frees' = [i \in SpokeDicts |->
                      IF i \in RoleWindows THEN role_frees[i] + 1
                                          ELSE role_frees[i]]
               /\ role_live' = [i \in SpokeDicts |-> FALSE]
               /\ role_buffers' = [i \in SpokeDicts |-> <<>>]
               /\ role_constructed' = FALSE
               /\ role_error' = IF role_constructed THEN "none" ELSE "crash"
          ELSE /\ role_error' = "crash"
               /\ UNCHANGED <<role_frees, role_live, role_buffers,
                              role_constructed>>
    /\ UNCHANGED <<role_recv, role_seen, role_length, role_expected>>
    /\ UNCHANGED <<wheelVars, setupVars, pureVars, replicaVars>>

(* free_windows: if the flag is set, Free() on self.windows[i] for i in    *)
(* range(n_spokes) and del self.buffers; the flag is cleared in any case.  *)
(* Free() on a window that is not there ends the call with an exception.   *)
RoleFreeWindows ==
    /\ RoleCanCall
    /\ RoleCalled("free_windows")
    /\ IF role_constructed
          THEN IF \A i \in RoleWindows : role_live[i]
                  THEN /\ role_frees' = [i \in SpokeDicts |->
                              IF i \in RoleWindows THEN role_frees[i] + 1
                                                  ELSE role_frees[i]]
                       /\ role_live' = [i \in SpokeDicts |-> FALSE]
                       /\ role_buffers' = [i \in SpokeDicts |-> <<>>]
                       /\ role_constructed' = FALSE
                       /\ role_error' = "none"
                  ELSE /\ role_error' = "crash"
                       /\ UNCHANGED <<role_frees, role_live, role_buffers,
                                      role_constructed>>
          ELSE /\ role_constructed' = FALSE
               /\ role_error' = "none"
               /\ UNCHANGED <<role_frees, role_live, role_buffers>>
    /\ UNCHANGED <<role_recv, role_seen, role_length, role_expected>>
    /\ UNCHANGED <<wheelVars, setupVars, pureVars, replicaVars>>

(* publish into window i: refused before allocation; else the payload and  *)
(* then the counter are written                                            *)
RolePublish(i, v) ==
    /\ RoleCanCall
    /\ RoleCalled("publish")
    /\ IF ~role_constructed
          THEN /\ role_error' = "misuse"
               /\ role_buffers' = role_buffers
          ELSE IF ~role_live[i]
                  THEN /\ role_error' = "crash"
                       /\ role_buffers' = role_buffers
                  ELSE /\ role_error' = "none"
                       /\ role_buffers' = [role_buffers EXCEPT ![i] =
                              IncrementCounter(
                                 [k \in 1..Len(@) |->
                                     IF k < Len(@) THEN v ELSE @[k]])]
    /\ UNCHANGED <<role_constructed, role_live, role_recv, role_seen,
                   role_frees, role_length, role_expected>>
    /\ UNCHANGED <<wheelVars, setupVars, pureVars, replicaVars>>

(* poll of window i: refused before allocation; else the buffer is read    *)
(* and taken over if its counter is above the last-seen value              *)
RolePoll(i) ==
    /\ RoleCanCall
    /\ RoleCalled("poll")
    /\ IF ~role_constructed
          THEN /\ role_error' = "misuse"
               /\ UNCHANGED <<role_recv, role_seen>>
          ELSE IF ~role_live[i]
                  THEN /\ role_error' = "crash"
                       /\ UNCHANGED <<role_recv, role_seen>>
                  ELSE /\ role_error' = "none"
                       /\ IF HasNewData(role_buffers[i], role_seen[i])
                             THEN /\ role_recv' = role_buffers[i]
                                  /\ role_seen' = [role_seen EXCEPT ![i] =
                                         WriteId(role_buffers[i])]
                             ELSE UNCHANGED <<role_recv, role_seen>>
    /\ UNCHANGED <<role_constructed, role_live, role_buffers, role_frees,
                   role_length, role_expected>>
    /\ UNCHANGED <<wheelVars, setupVars, pureVars, replicaVars>>

RoleNext ==
    \/ RoleMakeWindows
    \/ RoleFreeWindows
    \/ \E i \in RoleWindows, v \in NonantValues : RolePublish(i, v)
    \/ \E i \in RoleWindows : RolePoll(i)

RoleSpec == Init /\ [][RoleNext]_vars

(* ---------------- functions of the aggregation spoke ---------------- *)
(* The reduction of a nonant matrix whose rows are spread over replicas,   *)
(* and the fixing of one nonant, each for every input of a bounded set.    *)

MatrixEntries == {1, 2}
MatrixRows == [1..2 -> MatrixEntries]
ExampleMatrix == <<<<1, 5>>, <<9, 2>>, <<3, 3>>>>
Matrices ==
    {ExampleMatrix} \cup UNION {[1..n -> MatrixRows] : n \in 1..MaxRows}

(* the splits of n rows into non-empty groups: row i goes to replica f[i], *)
(* and the replicas used are 1..k for some k                               *)
Splits(n) ==
    {f \in [1..n -> 1..n] : \E k \in 1..n : {f[i] : i \in 1..n} = 1..k}

(* a reduction: the heuristic, the matrix and the split of its rows        *)
ReduceCall(h, m, f) ==
    [fn |-> "reduce", heuristic |-> h, nonant_matrix |-> m, split |-> f]

VarKinds == {"binary", "integer", "continuous"}
Biases == {0, 5, 0 - 5, 3}
BiasOptions ==
    {[options |-> {}, rounding_bias |-> 0]}
        \cup {[options |-> {"rounding_bias"}, rounding_bias |-> b] : b \in Biases}

FixCalls ==
    {[fn |-> "fix", val |-> v, kind |-> k, opt |-> o] :
        v \in (0 - MaxCandidate)..MaxCandidate, k \in VarKinds,
        o \in BiasOptions}

(* the fixing loop over the nonants of one local scenario: the global      *)
(* candidate, which nonants are surrogates, the kind of the variables and  *)
(* whether the scenario's solver is persistent                             *)
FixLen == 3
CandidateEntries == {13, 27}
FixAllCalls ==
    {[fn |-> "fix_all", global_candidate |-> g, surrogate |-> u,
      kind |-> k, is_pers |-> p, opt |-> o] :
        g \in [1..FixLen -> CandidateEntries],
        u \in [1..FixLen -> BOOLEAN],
        k \in {"integer", "continuous"},
        p \in BOOLEAN,
        o \in {[options |-> {}, rounding_bias |-> 0]}}

(* a variable nobody has fixed: free, at the value the last solve left     *)
FreeVar == [value |-> NaN, fixed |-> FALSE, updated |-> FALSE]

(* main() of the look-ahead spoke, statement by statement: what the polls *)
(* of its passes find (0: nothing new, otherwise the published value, one  *)
(* number for the vector; the kill signal is seen after the last of them)  *)
(* and the configured scen_limit                                           *)
PollOutcomes == {0, 5, 10}
XhatPolls == UNION {[1..n -> PollOutcomes] : n \in 1..MaxPasses}
XhatMainCalls ==
    {[fn |-> "xhat_main", polls |-> p, scen_limit |-> l] :
        p \in XhatPolls, l \in {1, 3}}

(* a discrete proximal-approximation manager: the integer bounds lb < ub  *)
(* of its variable; the values handed to add_cut are in tenths and reach   *)
(* two units beyond either bound                                           *)
Sides == {"LEFT", "RIGHT", "BOTH"}
ProxBounds == {<<0 - 1, 1>>, <<0, 2>>}
ProxCalls == {[fn |-> "add_cut", lb |-> b[1], ub |-> b[2]] : b \in ProxBounds}
ProxValues(lb, ub) ==
    {10 * k + d : k \in (lb - 2)..(ub + 2), d \in {0, 5}}
CutKeys(lb, ub) == (lb - 3)..(ub + 4)

PureInit ==
    /\ InitWheel
    /\ list_of_spoke_dict = {}
    /\ is_minimizing
    /\ opt = [s \in SpokeDicts |-> ValidOpt]
    /\ InitDriverDone
    /\ \/ \E m \in Matrices, h \in Heuristics :
             \E f \in Splits(Len(m)) : pure_call = ReduceCall(h, m, f)
       \/ pure_call \in FixCalls
       \/ pure_call \in FixAllCalls
       \/ pure_call \in XhatMainCalls
       \/ pure_call \in ProxCalls
    /\ pure_result = [stage |-> "start"]

(* the rows of the matrix that replica r holds, in their order             *)
RECURSIVE RowsOf(_, _, _, _)
RowsOf(m, f, r, n) ==
    IF n = 0 THEN <<>>
    ELSE IF f[n] = r THEN Append(RowsOf(m, f, r, n - 1), m[n])
    ELSE RowsOf(m, f, r, n - 1)

Replicas(f) == MaxOf({f[i] : i \in DOMAIN f})

(* every replica reduces its own rows: extract_local_candidate_soln        *)
ReplicasExtract ==
    /\ pure_call.fn = "reduce"
    /\ pure_result.stage = "start"
    /\ LET m == pure_call.nonant_matrix
           f == pure_call.split
       IN pure_result' =
             [stage |-> "local",
              local |-> [r \in 1..Replicas(f) |->
                            LocalCandidate(pure_call.heuristic,
                                           RowsOf(m, f, r, Len(m)))]]
    /\ UNCHANGED <<wheelVars, roleVars, setupVars, pure_call, replicaVars>>

(* the reduction over the cylinder ranks is left out: the receive buffer  *)
(* of a replica holds its own local candidate                              *)
AllreduceAt_Local(h, locals, r) == locals[r]

(* the receive buffer global_candidate of replica r after the collective:  *)
(* the contributions are combined starting from the replica's own          *)
AllreduceAt(h, locals, r) ==
    LET n == Len(locals)
    IN Allreduce(h, [i \in 1..n |-> locals[((i + r - 2) % n) + 1]])

(* the collective reduction of the local candidates                        *)
ReplicasAllreduce ==
    /\ pure_call.fn = "reduce"
    /\ pure_result.stage = "local"
    /\ pure_result' =
          [stage |-> "done",
           local |-> pure_result.local,
           global |-> Allreduce(pure_call.heuristic, pure_result.local),
           globals |-> [r \in DOMAIN pure_result.local |->
                           AllreduceAt(pure_call.heuristic,
                                       pure_result.local, r)]]
    /\ UNCHANGED <<wheelVars, roleVars, setupVars, pure_call, replicaVars>>

(* every replica fixes the nonants of each of its local scenarios from its *)
(* own global_candidate, before calculate_incumbent                        *)
ReplicasFix ==
    /\ pure_call.fn = "reduce"
    /\ pure_result.stage = "done"
    /\ LET m == pure_call.nonant_matrix
           f == pure_call.split
       IN pure_result' =
             [pure_result EXCEPT !.stage = "fixed"]
                @@ [nonants |->
                      [r \in DOMAIN pure_result.local |->
                          [k \in 1..Len(RowsOf(m, f, r, Len(m))) |->
                              [ix \in 1..Len(m[1]) |->
                                  FixValue(pure_result.globals[r][ix],
                                           FALSE, FALSE, rounding_bias)]]]]
    /\ UNCHANGED <<wheelVars, roleVars, setupVars, pure_call, replicaVars>>

(* one nonant of one scenario is fixed from its global candidate           *)
FixNonant ==
    /\ pure_call.fn = "fix"
    /\ pure_result.stage = "start"
    /\ pure_result' =
          [stage |-> "done",
           value |-> FixValue(pure_call.val,
                              pure_call.kind = "binary",
                              pure_call.kind = "integer",
                              RoundingBias(pure_call.opt))]
    /\ UNCHANGED <<wheelVars, roleVars, setupVars, pure_call, replicaVars>>

(* the candidate entry is counted over the variables that are fixed: a    *)
(* skipped surrogate does not use one up                                   *)
CandidateIndex_Compacted(surrogate, ix) ==
    Cardinality({j \in 1..ix : ~surrogate[j]})

(* for ix, var in enumerate(nonant_indices.values()): the position of the  *)
(* variable, surrogates counted                                            *)
CandidateIndex(surrogate, ix) == ix

(* one turn of the loop over the nonants of the scenario                   *)
FixLoopStep ==
    /\ pure_call.fn = "fix_all"
    /\ pure_result.stage \in {"start", "loop"}
    /\ LET ix == IF pure_result.stage = "start" THEN 1
                 ELSE pure_result.ix + 1
           nonants == IF pure_result.stage = "start"
                         THEN [j \in 1..FixLen |-> FreeVar]
                         ELSE pure_result.nonants
           val == pure_call.global_candidate[
                      CandidateIndex(pure_call.surrogate, ix)]
       IN pure_result' =
             [stage |-> IF ix = FixLen THEN "done" ELSE "loop",
              ix |-> ix,
              nonants |->
                 IF pure_call.surrogate[ix]
                    THEN nonants
                    ELSE [nonants EXCEPT ![ix] =
                            [value |-> FixValue(val, FALSE,
                                                pure_call.kind = "integer",
                                                RoundingBias(pure_call.opt)),
                             fixed |-> TRUE,
                             updated |-> pure_call.is_pers]]]
    /\ UNCHANGED <<wheelVars, roleVars, setupVars, pure_call, replicaVars>>

(* the statements of xhatlooper_prep after its two checks, in order       *)
XhatPrepBody ==
    <<"XhatLooper", "pre_iter0", "_save_original_nonants",
      "_lazy_create_solvers", "_update_E1", "post_iter0", "_save_nonants">>

(* the restore is done before the polled vector is in the cache           *)
XhatPassBody_RestoreFirst ==
    <<"_restore_nonants", "_put_nonant_cache", "xhat_looper",
      "update_if_improving">>

(* the statements of the new-data branch of main(), in order               *)
XhatPassBody ==
    <<"_put_nonant_cache", "_restore_nonants", "xhat_looper",
      "update_if_improving">>

update_persistent == FALSE   \* _restore_nonants(update_persistent=False)
restore_nonants == FALSE     \* xhat_looper(..., restore_nonants=False)

(* the values the scenarios hold when the model is built                   *)
ModelValue == 7

(* the optimizer and the spoke before main() has run a statement           *)
XhatMainStart ==
    [stage |-> "prep", k |-> 0, pass |-> 0, localnonants |-> NaN,
     original |-> NaN, cache |-> NaN, scen |-> ModelValue,
     persistent |-> ModelValue, upperbound |-> NaN, calls |-> <<>>]

XhatMainState == IF pure_result.stage = "start" THEN XhatMainStart
                 ELSE pure_result

(* the upper bound of a look-ahead over scen_limit scenarios on the values *)
(* the scenarios hold                                                      *)
xhat_looper(scen, scen_limit) == scen + scen_limit

(* what one statement does to the optimizer, and its entry in the record   *)
(* of calls                                                                *)
XhatExecute(st, name) ==
    CASE name = "_save_original_nonants" ->
            [st EXCEPT !.original = st.scen,
                       !.calls = Append(@, <<name, st.scen>>)]
      [] name = "_save_nonants" ->
            [st EXCEPT !.cache = st.scen,
                       !.calls = Append(@, <<name, st.scen>>)]
      [] name = "_put_nonant_cache" ->
            [st EXCEPT !.cache = st.localnonants,
                       !.calls = Append(@, <<name, st.localnonants>>)]
      [] name = "_restore_nonants" ->
            [st EXCEPT !.scen = st.cache,
                       !.persistent = IF update_persistent THEN st.cache
                                      ELSE @,
                       !.calls = Append(@, <<name, update_persistent>>)]
      [] name = "xhat_looper" ->
            [st EXCEPT !.upperbound =
                           xhat_looper(st.scen, pure_call.scen_limit),
                       !.scen = IF restore_nonants THEN st.original ELSE @,
                       !.calls = Append(@, <<name, pure_call.scen_limit,
                                             restore_nonants>>)]
      [] name = "update_if_improving" ->
            [st EXCEPT !.calls = Append(@, <<name, st.upperbound>>)]
      [] OTHER -> [st EXCEPT !.calls = Append(@, <<name>>)]

(* xhatter = self.xhatlooper_prep(), one statement                         *)
XhatMainPrepStep ==
    /\ pure_call.fn = "xhat_main"
    /\ XhatMainState.stage = "prep"
    /\ LET st == XhatMainState
           k == st.k + 1
           after == XhatExecute(st, XhatPrepBody[k])
       IN pure_result' =
             [after EXCEPT !.k = IF k = Len(XhatPrepBody) THEN 0 ELSE k,
                           !.stage = IF k = Len(XhatPrepBody)
                                        THEN "kill_check" ELSE "prep"]
    /\ UNCHANGED <<wheelVars, roleVars, setupVars, pure_call, replicaVars>>

(* while not self.got_kill_signal()                                        *)
XhatMainLoopTest ==
    /\ pure_call.fn = "xhat_main"
    /\ pure_result.stage = "kill_check"
    /\ pure_result' =
          [pure_result EXCEPT !.stage =
              IF pure_result.pass = Len(pure_call.polls) THEN "done"
              ELSE "poll"]
    /\ UNCHANGED <<wheelVars, roleVars, setupVars, pure_call, replicaVars>>

(* if self.new_nonants                                                     *)
XhatMainPoll ==
    /\ pure_call.fn = "xhat_main"
    /\ pure_result.stage = "poll"
    /\ LET found == pure_call.polls[pure_result.pass + 1]
       IN pure_result' =
             [pure_result EXCEPT
                 !.pass = @ + 1,
                 !.localnonants = IF found # 0 THEN found ELSE @,
                 !.stage = IF found # 0 THEN "body" ELSE "kill_check"]
    /\ UNCHANGED <<wheelVars, roleVars, setupVars, pure_call, replicaVars>>

(* one statement of the new-data branch                                    *)
XhatMainBodyStep ==
    /\ pure_call.fn = "xhat_main"
    /\ pure_result.stage = "body"
    /\ LET k == pure_result.k + 1
           after == XhatExecute(pure_result, XhatPassBody[k])
       IN pure_result' =
             [after EXCEPT !.k = IF k = Len(XhatPassBody) THEN 0 ELSE k,
                           !.stage = IF k = Len(XhatPassBody)
                                        THEN "kill_check" ELSE "body"]
    /\ UNCHANGED <<wheelVars, roleVars, setupVars, pure_call, replicaVars>>

(* ---------------- ProxApproxManagerDiscrete ---------------- *)

(* _compute_mb(val): slope and intercept of the secant of x^2 over         *)
(* (val, val + 1)                                                          *)
compute_mb(val) == <<2 * val + 1, 0 - (val * (val + 1))>>

(* (self.var_index, k) in self.cuts                                        *)
HasCut(cuts, k) == \E c \in cuts : c[1] = k

(* self.cuts[self.var_index, k] = (0, expr, None), and add_constraint on   *)
(* the persistent solver: the entry under k is (re)placed                  *)
StoreCut(mgr, k, mb) ==
    [mgr EXCEPT !.cuts = {c \in @ : c[1] # k} \cup {<<k, mb[1], mb[2]>>},
                !.adds = [@ EXCEPT ![k] = @ + 1]]

(* the cut to the right is stored without looking it up first              *)
AddCutRight_NoLookup(mgr, val, side) ==
    IF side \in {"BOTH", "RIGHT"} /\ val < mgr.ub
       THEN StoreCut(mgr, val + 1, compute_mb(val))
       ELSE mgr

(* if side in (Side.BOTH, Side.RIGHT): the cut for (val, val + 1)          *)
AddCutRight(mgr, val, side) ==
    IF side \in {"BOTH", "RIGHT"} /\ ~HasCut(mgr.cuts, val + 1)
          /\ val < mgr.ub
       THEN StoreCut(mgr, val + 1, compute_mb(val))
       ELSE mgr

(* if side in (Side.BOTH, Side.LEFT): the cut for (val - 1, val)           *)
AddCutLeft(mgr, val, side) ==
    IF side \in {"BOTH", "LEFT"} /\ ~HasCut(mgr.cuts, val)
          /\ val > mgr.lb
       THEN StoreCut(mgr, val, compute_mb(val - 1))
       ELSE mgr

(* add_cut(val, side): val = int(round(val)), then the two sides           *)
add_cut(mgr, x, side) ==
    LET val == round(x) \div 10
    IN AddCutLeft(AddCutRight(mgr, val, side), val, side)

(* the manager after __init__, no cut stored                               *)
ProxManager(lb, ub) ==
    [stage |-> "cuts", lb |-> lb, ub |-> ub, cuts |-> {},
     adds |-> [k \in CutKeys(lb, ub) |-> 0],
     n |-> 0, last |-> <<>>, in_range |-> TRUE, repeated |-> FALSE]

(* one add_cut call, with any value and side                               *)
ProxAddCut ==
    /\ pure_call.fn = "add_cut"
    /\ pure_result.stage \in {"start", "cuts"}
    /\ LET mgr == IF pure_result.stage = "start"
                     THEN ProxManager(pure_call.lb, pure_call.ub)
                     ELSE pure_result
       IN /\ mgr.n < MaxCuts
          /\ \E x \in ProxValues(mgr.lb, mgr.ub), side \in Sides :
                pure_result' =
                   [add_cut(mgr, x, side) EXCEPT
                       !.n = @ + 1,
                       !.last = <<x, side>>,
                       !.repeated = (mgr.last = <<x, side>>),
                       !.in_range = @ /\ mgr.lb <= round(x) \div 10
                                      /\ round(x) \div 10 <= mgr.ub]
    /\ UNCHANGED <<wheelVars, roleVars, setupVars, pure_call, replicaVars>>

PureNext ==
    \/ ReplicasExtract
    \/ ReplicasAllreduce
    \/ ReplicasFix
    \/ FixNonant
    \/ FixLoopStep
    \/ XhatMainPrepStep
    \/ XhatMainLoopTest
    \/ XhatMainPoll
    \/ XhatMainBodyStep
    \/ ProxAddCut

PureSpec == PureInit /\ [][PureNext]_vars

(* ---------------- the drivers before spin() ---------------- *)
(* generic_cylinders._do_decomp and farmer_cylinders.main, from the parsed *)
(* command line to wheel.spin()                                            *)

None == 0 - 1            \* cfg.default_rho when --default-rho is not given

Drivers == {"generic", "farmer"}

Cfgs ==
    [driver : Drivers,
     default_rho : {None, 1},
     rho_setter : BOOLEAN,
     sep_rho : BOOLEAN,
     coeff_rho : BOOLEAN,
     sensi_rho : BOOLEAN,
     use_norm_rho_converger : BOOLEAN,
     use_norm_rho_updater : BOOLEAN]

(* generic_cylinders without --default-rho and without a rho setter, but   *)
(* with --sep-rho                                                          *)
SepRhoCfg ==
    [ValidCfg EXCEPT !.driver = "generic", !.default_rho = None,
                     !.sep_rho = TRUE]

(* the command line is parsed and no check has run. What the drivers check *)
(* does not depend on the wheel they build afterwards: every command line  *)
(* is followed to a wheel of the hub alone, two of them to every wheel     *)
SetupInit ==
    /\ InitWheel
    /\ opt = [s \in SpokeDicts |-> ValidOpt]
    /\ cfg \in Cfgs
    /\ cfg \notin {ValidCfg, SepRhoCfg}
          => (list_of_spoke_dict = {} /\ is_minimizing)
    /\ driver_pc = "start"
    /\ driver_error = "none"
    /\ InitNoCall

DriverRaise(e) ==
    /\ driver_pc' = "raised"
    /\ driver_error' = e
    /\ UNCHANGED cfg

(* the rho check lets every command line through                           *)
CheckRho_NoRaise ==
    /\ driver_pc = "start"
    /\ driver_pc' = "rho_ok"
    /\ UNCHANGED <<cfg, driver_error>>
    /\ UNCHANGED <<wheelVars, roleVars, pureVars, replicaVars>>

(* if cfg.default_rho is None and rho_setter is None: ...                  *)
CheckRho ==
    /\ driver_pc = "start"
    /\ IF cfg.default_rho = None /\ ~cfg.rho_setter
          THEN IF cfg.driver = "generic"
                  /\ (cfg.sep_rho \/ cfg.coeff_rho \/ cfg.sensi_rho)
                  THEN /\ cfg' = [cfg EXCEPT !.default_rho = 1]
                       /\ driver_pc' = "rho_ok"
                       /\ UNCHANGED driver_error
                  ELSE DriverRaise("RuntimeError")
          ELSE /\ driver_pc' = "rho_ok"
               /\ UNCHANGED <<cfg, driver_error>>
    /\ UNCHANGED <<wheelVars, roleVars, pureVars, replicaVars>>

(* if cfg.use_norm_rho_converger: if not cfg.use_norm_rho_updater: raise   *)
CheckConverger ==
    /\ driver_pc = "rho_ok"
    /\ IF cfg.use_norm_rho_converger /\ ~cfg.use_norm_rho_updater
          THEN DriverRaise("RuntimeError")
          ELSE /\ driver_pc' = "converger_ok"
               /\ UNCHANGED <<cfg, driver_error>>
    /\ UNCHANGED <<wheelVars, roleVars, pureVars, replicaVars>>

DriverAdvance(from, to) ==
    /\ driver_pc = from
    /\ driver_pc' = to
    /\ UNCHANGED <<cfg, driver_error>>
    /\ UNCHANGED <<wheelVars, roleVars, pureVars, replicaVars>>

(* hub_dict = vanilla.ph_hub(...) or vanilla.aph_hub(...)                  *)
BuildHubDict == DriverAdvance("converger_ok", "hub_dict")

(* the spoke specifications and list_of_spoke_dict                         *)
BuildSpokeDicts == DriverAdvance("hub_dict", "spoke_dicts")

(* wheel = WheelSpinner(hub_dict, list_of_spoke_dict)                      *)
ConstructWheel == DriverAdvance("spoke_dicts", "wheel")

(* wheel.spin()                                                            *)
Spin == DriverAdvance("wheel", "spin")

SetupNext ==
    \/ CheckRho
    \/ CheckConverger
    \/ BuildHubDict
    \/ BuildSpokeDicts
    \/ ConstructWheel
    \/ Spin
    \/ (driver_pc = "spin" /\ Next)

SetupSpec == SetupInit /\ [][SetupNext]_vars

(* ---------------- the replicas of the aggregation spoke ---------------- *)
(* The aggregation spoke on two cylinder ranks. Replica c polls the windows *)
(* of hub rank c; the hub ranks go through the same iterations, each       *)
(* publishing on its own, and the replicas meet in the Allreduce over the  *)
(* cylinder communicator.                                                  *)

Other(c) == 1 - c

(* hub rank c publishes the nonants of its next iteration; the hub ranks   *)
(* are at most one iteration apart                                         *)
HubRankPublish(c) ==
    /\ \A d \in CylinderRanks : ~replicas.kill[d]
    /\ replicas.hub[c] < MaxPublish
    /\ replicas.hub[c] <= replicas.hub[Other(c)]
    /\ replicas' = [replicas EXCEPT !.hub[c] = @ + 1]
    /\ UNCHANGED <<wheelVars, roleVars, setupVars, pureVars>>

(* the hub has converged, on every rank after the same iteration; hub rank *)
(* c publishes its kill signal                                             *)
HubRankKill(c) ==
    /\ ~replicas.kill[c]
    /\ replicas.hub[c] = replicas.hub[Other(c)]
    /\ replicas' = [replicas EXCEPT !.kill[c] = TRUE]
    /\ UNCHANGED <<wheelVars, roleVars, setupVars, pureVars>>

(* while not self.got_kill_signal()                                        *)
ReplicaLoopTest(c) ==
    /\ replicas.pc[c] = "kill_check"
    /\ replicas' = [replicas EXCEPT !.pc[c] =
                       IF replicas.kill[c] THEN "left" ELSE "poll"]
    /\ UNCHANGED <<wheelVars, roleVars, setupVars, pureVars>>

(* if self.update_nonants(): the local candidate is extracted and the      *)
(* Allreduce entered                                                       *)
ReplicaUpdateNonants(c) ==
    /\ replicas.pc[c] = "poll"
    /\ replicas' =
          IF HasNewData(<<replicas.hub[c]>>, replicas.seen[c])
             THEN [replicas EXCEPT !.seen[c] = replicas.hub[c],
                                   !.pc[c] = "allreduce",
                                   !.entered[c] = @ + 1]
             ELSE [replicas EXCEPT !.pc[c] = "kill_check"]
    /\ UNCHANGED <<wheelVars, roleVars, setupVars, pureVars>>

(* self.cylinder_comm.Allreduce(...) returns once the other replica has    *)
(* entered the same reduction; the rest of the pass follows                *)
ReplicaAllreduce(c) ==
    /\ replicas.pc[c] = "allreduce"
    /\ replicas.entered[Other(c)] >= replicas.entered[c]
    /\ replicas' = [replicas EXCEPT !.pc[c] = "kill_check"]
    /\ UNCHANGED <<wheelVars, roleVars, setupVars, pureVars>>

ReplicaNext ==
    \E c \in CylinderRanks :
        \/ HubRankPublish(c)
        \/ HubRankKill(c)
        \/ ReplicaLoopTest(c)
        \/ ReplicaUpdateNonants(c)
        \/ ReplicaAllreduce(c)

(* one aggregation spoke, spread over the cylinder ranks                    *)
ReplicaInit == Init /\ list_of_spoke_dict = {1}

ReplicaSpec == ReplicaInit /\ [][ReplicaNext]_vars

(* ======================= properties ======================= *)

Allocated(s) == Len(hub_buf[s]) > 0

(* C1: a spoke never acts twice on the same published nonant vector: the   *)
(* hub counter values on which a spoke entered its new-data branch (and    *)
(* so went on to call update_if_improving) are pairwise different.         *)
C1_NoDoubleAct ==
    \A s \in SpokeDicts :
        \A i, j \in 1..Len(acted[s]) : i # j => acted[s][i] # acted[s][j]

(* a spoke that acted on both publishes stands before a poll of the        *)
(* counter it has already acted on                                         *)
C1_Witness ==
    \E s \in Spokes :
        /\ Len(acted[s]) = 2
        /\ spoke_pc[s] = "poll"
        /\ ~PollIsNew(s)

(* C2 as stated: detection fires exactly once per publish, so a spoke that *)
(* has caught up with the hub's counter has fired once for every publish.  *)
C2_ExactlyOncePerPublish ==
    \A s \in Spokes :
        (Allocated(s) /\ remote_write_id[s] = WriteId(hub_buf[s]))
            => Len(acted[s]) = WriteId(hub_buf[s])

(* C2 amended: detection fires at most once per publish and never twice    *)
(* for one counter value: the counters that fired are strictly increasing, *)
(* none exceeds the published counter, and the last one is the last-seen   *)
(* value (each raise of the last-seen value fired exactly once).           *)
C2_AtMostOncePerPublish ==
    \A s \in Spokes :
        Allocated(s) =>
            /\ Len(acted[s]) <= WriteId(hub_buf[s])
            /\ \A i \in 1..Len(acted[s]) :
                  /\ acted[s][i] \in 1..WriteId(hub_buf[s])
                  /\ i > 1 => acted[s][i] > acted[s][i - 1]
            /\ remote_write_id[s] =
                  IF acted[s] = <<>> THEN 0 ELSE acted[s][Len(acted[s])]

(* two publishes, one detection: the spoke skipped the first publish       *)
C2_Witness ==
    \E s \in Spokes :
        /\ Allocated(s)
        /\ WriteId(hub_buf[s]) = 2
        /\ acted[s] = <<2>>

Windows == <<hub_buf[1], hub_buf[2], spoke_buf[1], spoke_buf[2], kill_buf>>

(* C3: the write counter of a window is zero at allocation, goes up on     *)
(* every publish of its owner, and between allocation and free never goes  *)
(* down or back to zero.                                                   *)
C3_CounterMonotone ==
    [][ /\ \A w \in 1..Len(Windows) :
              /\ (Len(Windows[w]) = 0 /\ Len(Windows'[w]) > 0)
                     => WriteId(Windows'[w]) = 0
              /\ (Len(Windows[w]) > 0 /\ Len(Windows'[w]) > 0)
                     => WriteId(Windows'[w]) >= WriteId(Windows[w])
        /\ (hub_pc = "incr" /\ hub_pc' # "incr")
              => WriteId(hub_buf'[hub_cursor[1]]) > WriteId(hub_buf[hub_cursor[1]])
        /\ (hub_pc = "kill_incr" /\ hub_pc' # "kill_incr")
              => WriteId(kill_buf') > WriteId(kill_buf)
        /\ \A s \in Spokes :
              (spoke_pc[s] = "incr" /\ spoke_pc'[s] # "incr")
                  => WriteId(spoke_buf'[s]) > WriteId(spoke_buf[s])
      ]_vars

(* a window that has been published twice                                  *)
C3_Witness ==
    \E s \in Spokes :
        /\ Allocated(s)
        /\ WriteId(hub_buf[s]) = 2
        /\ WriteId(spoke_buf[s]) = 2

NoRegress(new, old) == IF is_minimizing THEN new <= old ELSE new >= old

StrictlyBetter(v, b) ==
    \/ is_minimizing /\ v < b
    \/ ~is_minimizing /\ v > b

(* C4: update_if_improving is a monotonic ratchet: over any run the best   *)
(* bound of a spoke and the hub's tracked best only move in the improving  *)
(* direction (down when minimizing, up when maximizing), never back.       *)
C4_Ratchet ==
    [][ /\ NoRegress(BestInnerBound', BestInnerBound)
        /\ \A s \in SpokeDicts :
              NoRegress(best_inner_bound'[s], best_inner_bound[s])
      ]_vars

(* the hub tracks a finite best of a spoke that has offered two values     *)
C4_Witness ==
    \E s \in Spokes :
        /\ Cardinality(offered[s]) = 2
        /\ BestInnerBound = best_inner_bound[s]
        /\ BestInnerBound \in ObjValues

(* C5: update_if_improving(value) publishes only on strict improvement: a  *)
(* value that is worse than or equal to the best leaves the bound window   *)
(* (payload and counter) and the best unchanged; a strictly better value   *)
(* gives one payload write followed by one counter increment; nothing else *)
(* of the spoke writes the window.                                         *)
C5_Frame ==
    [][ \A s \in SpokeDicts :
          /\ (spoke_pc[s] = "report" /\ spoke_pc'[s] # "report") =>
                IF StrictlyBetter(obj[s], best_inner_bound[s])
                   THEN /\ best_inner_bound'[s] = obj[s]
                        /\ Payload(spoke_buf'[s]) = <<obj[s]>>
                        /\ WriteId(spoke_buf'[s]) = WriteId(spoke_buf[s])
                        /\ spoke_pc'[s] = "incr"
                   ELSE /\ spoke_buf'[s] = spoke_buf[s]
                        /\ best_inner_bound'[s] = best_inner_bound[s]
                        /\ spoke_pc'[s] = "kill_check"
          /\ (spoke_pc[s] = "incr" /\ spoke_pc'[s] # "incr") =>
                /\ WriteId(spoke_buf'[s]) = WriteId(spoke_buf[s]) + 1
                /\ Payload(spoke_buf'[s]) = Payload(spoke_buf[s])
                /\ best_inner_bound'[s] = best_inner_bound[s]
                /\ spoke_pc'[s] = "kill_check"
          /\ (spoke_pc[s] \notin {"report", "incr"}
                 /\ spoke_buf[s] # <<>> /\ spoke_buf'[s] # <<>>) =>
                /\ spoke_buf'[s] = spoke_buf[s]
                /\ best_inner_bound'[s] = best_inner_bound[s]
      ]_vars

(* two calls with the same value: the first published, the tie did not     *)
C5_Witness ==
    \E s \in Spokes :
        /\ Len(acted[s]) = 2
        /\ Cardinality(offered[s]) = 1
        /\ spoke_pc[s] = "kill_check"
        /\ WriteId(spoke_buf[s]) = 1

SetMin(S) == CHOOSE m \in S : \A n \in S : m <= n
SetMax(S) == CHOOSE m \in S : \A n \in S : m >= n

(* C6: starting from +infinity a minimizing spoke's best is, after any     *)
(* sequence of update_if_improving calls, the minimum of the values        *)
(* offered so far; from -infinity a maximizing spoke's is the maximum.     *)
C6_BestIsExtremum ==
    \A s \in SpokeDicts :
        best_inner_bound[s] =
            IF offered[s] = {}
               THEN (IF is_minimizing THEN PosInf ELSE NegInf)
               ELSE (IF is_minimizing THEN SetMin(offered[s])
                                      ELSE SetMax(offered[s]))

(* minimizing: a first offer was taken, a worse second one rejected        *)
C6_Witness ==
    \E s \in Spokes :
        /\ is_minimizing
        /\ offered[s] = {1, 2}
        /\ best_inner_bound[s] = 1
        /\ WriteId(spoke_buf[s]) = 1
        /\ spoke_pc[s] = "kill_check"

InLoop == {"kill_check", "poll", "allreduce", "report", "incr"}
LeftLoop(s) == spoke_pc[s] \in {"free", "returned"}

(* C7: once the hub has published termination, every spoke that keeps      *)
(* taking steps leaves its main loop, and it does so at the first loop     *)
(* test it makes after the publish (at most one, the pass in progress is   *)
(* the only one it still finishes).                                        *)
C7_KillLive ==
    /\ \A s \in SpokeDicts :
          (KillPublished /\ s \in Spokes) ~> LeftLoop(s)
    /\ [](\A s \in SpokeDicts :
             /\ passes_after_kill[s] <= 1
             /\ passes_after_kill[s] = 1 => kill_seen[s] /\ LeftLoop(s))

(* a spoke that had acted on nonants has made its one loop test after the  *)
(* kill publish, seen the signal and left the loop                         *)
C7_Witness ==
    \E s \in Spokes :
        /\ KillPublished
        /\ passes_after_kill[s] = 1
        /\ kill_seen[s]
        /\ spoke_pc[s] = "free"
        /\ acted[s] # <<>>

(* C8: after got_kill_signal() has returned True to a spoke, the spoke     *)
(* makes no further call of update_if_improving and no further write to    *)
(* its bound window.                                                       *)
C8_NoPublishAfterKill ==
    [][ \A s \in SpokeDicts :
          kill_seen[s] =>
              /\ offered'[s] = offered[s]
              /\ best_inner_bound'[s] = best_inner_bound[s]
              /\ spoke_buf'[s] = spoke_buf[s] \/ spoke_buf'[s] = <<>>
      ]_vars

(* a spoke has seen the kill signal and left new nonants unprocessed       *)
C8_Witness ==
    \E s \in Spokes :
        /\ kill_seen[s]
        /\ spoke_pc[s] = "free"
        /\ Allocated(s)
        /\ WriteId(hub_buf[s]) > remote_write_id[s]
        /\ WriteId(spoke_buf[s]) > 0

(* C9: the main loop of a spoke is ended by the kill flag alone: every     *)
(* pass starts with the got_kill_signal() test, the loop is left only from *)
(* that test and only when it returned True, and no other step of a pass   *)
(* (no new data, a non-improving candidate, the end of a pass) leaves it.  *)
C9_LoopExitOnlyByKill ==
    [][ \A s \in SpokeDicts :
          /\ (spoke_pc[s] \in InLoop /\ spoke_pc'[s] \notin InLoop) =>
                /\ spoke_pc[s] = "kill_check"
                /\ WriteId(kill_buf) > 0
                /\ kill_seen'[s]
          /\ (spoke_pc[s] = "kill_check" /\ spoke_pc'[s] # "kill_check") =>
                /\ spoke_pc'[s] \in {"poll", "free"}
                /\ spoke_pc'[s] = "free" <=> WriteId(kill_buf) > 0
          /\ (spoke_pc[s] # "poll" /\ spoke_pc'[s] = "poll") =>
                spoke_pc[s] = "kill_check"
          /\ (spoke_pc[s] \in InLoop \ {"kill_check"}
                 /\ spoke_pc'[s] # spoke_pc[s]) =>
                spoke_pc'[s] \in InLoop
      ]_vars

(* a spoke that met a pass without new data and a rejected candidate has   *)
(* left its loop on the kill signal                                        *)
C9_Witness ==
    \E s \in Spokes :
        /\ spoke_pc[s] = "free"
        /\ kill_seen[s]
        /\ Len(acted[s]) = 2
        /\ Cardinality(offered[s]) = 1
        /\ remote_write_id[s] = WriteId(hub_buf[s])

(* C10: spin() returns only after global termination: at the step with     *)
(* which spin() returns on a rank, the hub has published the kill signal   *)
(* and the main loops of the hub and of every spoke have been left.        *)
C10_SpinReturnsAfterTermination ==
    [][ ( \/ hub_pc # "returned" /\ hub_pc' = "returned"
          \/ \E s \in SpokeDicts :
                spoke_pc[s] # "returned" /\ spoke_pc'[s] = "returned" )
        => /\ KillPublished
           /\ hub_state = "CONVERGED"
           /\ hub_pc \in {"wait", "free"}
           /\ \A s \in Spokes : LeftLoop(s)
      ]_vars

(* spin() has returned on the hub and on both spokes of a wheel            *)
C10_Witness ==
    /\ n_spokes = 2
    /\ hub_pc = "returned"
    /\ \A s \in Spokes : spoke_pc[s] = "returned"
    /\ \E s \in Spokes : acted[s] # <<>>

(* C11: a wheel built with an empty spoke list terminates: the hub is      *)
(* never held at its teardown wait (there is no spoke to wait for), it     *)
(* reaches FINALIZED, spin() returns, also when no iteration was run, and  *)
(* the driver on the hub rank then takes the optimizer wheel.spcomm.opt.   *)
C11_EmptyWheelTerminates ==
    /\ (n_spokes = 0) ~> ( /\ hub_state = "FINALIZED"
                           /\ hub_pc = "returned"
                           /\ <<0, 0>> \in opt_exposed )
    /\ []((n_spokes = 0 /\ hub_pc = "wait") => ENABLED HubFinalize)

(* the wheel without spokes has finished with an iteration limit of 0 and  *)
(* the hub rank holds the optimizer                                        *)
C11_Witness ==
    /\ n_spokes = 0
    /\ hub_iter = 0
    /\ hub_state = "FINALIZED"
    /\ hub_pc = "returned"
    /\ <<0, 0>> \in opt_exposed

(* C12 as stated: after spin() nothing is written and no optimizer is      *)
(* exposed on any rank other than the hub of cylinder rank zero.           *)
C12_OnlyCylinderZeroHub ==
    /\ solution_written \subseteq {<<0, 0>>}
    /\ opt_exposed \subseteq {<<0, 0>>}

(* C12 amended: after spin() the solution writers are invoked only on the  *)
(* hub of cylinder rank zero; the optimizer is exposed on every hub rank   *)
(* (strata rank 0, whatever the cylinder rank) whose driver has run, and   *)
(* on no spoke rank; a spoke rank writes nothing.                          *)
C12_PostSpinHubRanks ==
    /\ solution_written \subseteq {<<0, 0>>}
    /\ \A r \in opt_exposed : r[1] = 0
    /\ \A r \in post_done :
          /\ SpinReturned(r)
          /\ r[1] = 0 => r \in opt_exposed
          /\ r = <<0, 0>> => r \in solution_written

(* every driver of a wheel with spokes has run its code after spin()       *)
C12_Witness ==
    /\ n_spokes >= 1
    /\ post_done = GlobalRanks
    /\ solution_written = {<<0, 0>>}
    /\ opt_exposed = {<<0, 0>>, <<0, 1>>}

(* C13: the hub's tracked best changes only to a strictly better value,    *)
(* one it has just read as new data from a spoke, which becomes its        *)
(* source; a polled value equal to (or worse than) the tracked best        *)
(* changes neither the tracked best nor its source.                        *)
C13_StrictOverwriteOnly ==
    [][ /\ BestInnerBound' # BestInnerBound =>
              /\ StrictlyBetter(BestInnerBound', BestInnerBound)
              /\ best_source' \in Spokes
              /\ HasNewData(spoke_buf[best_source'], hub_seen[best_source'])
              /\ spoke_buf[best_source'][1] = BestInnerBound'
        /\ best_source' # best_source => BestInnerBound' # BestInnerBound
      ]_vars

(* two spokes have published the same value once each; the hub read the    *)
(* one of spoke 2 first and kept it when it read the tie of spoke 1        *)
C13_Witness ==
    /\ n_spokes = 2
    /\ hub_pc = "free"
    /\ \A s \in Spokes :
          /\ WriteId(spoke_buf[s]) = 1
          /\ hub_seen[s] = 1
          /\ spoke_buf[s][1] = BestInnerBound
    /\ best_source = 2

(* the steps of the hub's ITERATING state                                  *)
HubIterating ==
    HubStep \/ HubWriteSlot \/ HubIncrCounter \/ HubPoll \/ HubConverge

(* C14: the hub never waits on a spoke while ITERATING: whatever the       *)
(* spokes do or fail to do, a step of the hub is possible in every         *)
(* ITERATING state, the poll is over after one read of each spoke's        *)
(* window, and the hub reaches CONVERGED even if no spoke ever takes a     *)
(* step.                                                                   *)
C14_HubNeverWaits ==
    /\ (hub_state = "ITERATING") ~> (hub_state = "CONVERGED")
    /\ [](hub_state = "ITERATING" => ENABLED HubIterating)
    /\ [][ (hub_pc = "poll" /\ hub_pc' # "poll") =>
              /\ hub_pc' = "step"
              /\ hub_state' = "ITERATING"
              /\ hub_seen' = PolledSeen
         ]_vars

(* the hub has run all its iterations and published the kill signal while  *)
(* a spoke has not taken a single step of its own; only the teardown wait  *)
(* is held up                                                              *)
C14_Witness ==
    /\ hub_state = "CONVERGED"
    /\ hub_pc = "wait"
    /\ hub_iter = PublishLimit
    /\ \E s \in Spokes : spoke_pc[s] = "prep"
    /\ ~ENABLED HubFinalize

StateOrder(st) ==
    CASE st = "SETUP" -> 0
      [] st = "ITERATING" -> 1
      [] st = "CONVERGED" -> 2
      [] st = "FINALIZED" -> 3

(* C15: the hub goes through SETUP, ITERATING, CONVERGED, FINALIZED in     *)
(* that order, one state at a time and never back; in SETUP no window      *)
(* exists and nothing has been published or polled; the hub publishes      *)
(* nonants and polls spokes only with its windows allocated, in ITERATING  *)
(* (and once more in CONVERGED for the teardown collection); after         *)
(* FINALIZED the hub does nothing any more.                                *)
C15_HubStateOrder ==
    /\ [][ hub_state' # hub_state =>
              StateOrder(hub_state') = StateOrder(hub_state) + 1 ]_vars
    /\ [](hub_state = "SETUP" =>
              /\ hub_pc = "setup"
              /\ ~windows_constructed[0]
              /\ kill_buf = <<>>
              /\ \A s \in SpokeDicts :
                    hub_buf[s] = <<>> /\ spoke_buf[s] = <<>> /\ hub_seen[s] = 0
              /\ hub_iter = 0)
    /\ [](hub_pc \in {"write", "incr", "poll"} =>
              /\ hub_state = "ITERATING"
              /\ windows_constructed[0]
              /\ \A s \in Spokes : hub_buf[s] # <<>> /\ spoke_buf[s] # <<>>)
    /\ [][ (hub_buf' # hub_buf \/ hub_seen' # hub_seen) =>
              \/ hub_state = "ITERATING" /\ hub_state' = "ITERATING"
                    /\ windows_constructed[0]
              \/ hub_state = "SETUP" /\ hub_state' = "ITERATING"
                    /\ \A s \in SpokeDicts : hub_buf[s] = <<>>
              \/ hub_state = "CONVERGED" /\ hub_pc = "wait"
                    /\ hub_buf' = hub_buf /\ windows_constructed[0]
              \/ hub_state = "CONVERGED" /\ hub_state' = "FINALIZED"
                    /\ hub_seen' = hub_seen
                    /\ \A s \in SpokeDicts : hub_buf'[s] = <<>> ]_vars
    /\ [][ hub_state = "FINALIZED" => UNCHANGED hubVars ]_vars

(* the hub of a wheel with a spoke has gone through all four states, with  *)
(* publishes and polls that brought in a bound                             *)
C15_Witness ==
    /\ hub_state = "FINALIZED"
    /\ n_spokes = 1
    /\ hub_iter = MaxPublish
    /\ \E s \in Spokes : hub_seen[s] >= 1 /\ best_source = s

SummariesCollected ==
    \A s \in Spokes : hub_seen[s] = WriteId(spoke_buf[s])

(* C16: the hub's teardown is ordered: the kill signal is out before the   *)
(* hub starts to wait; the hub leaves the wait only when every spoke has   *)
(* left its loop, and by collecting everything the spokes reported; the    *)
(* windows are released only after the kill publish and that collection.   *)
C16_TeardownOrder ==
    /\ [](hub_pc \in {"wait", "free"} =>
              KillPublished /\ hub_state = "CONVERGED")
    /\ [](hub_pc = "free" =>
              (\A s \in Spokes : LeftLoop(s)) /\ SummariesCollected)
    /\ [][ (hub_pc = "wait" /\ hub_pc' # "wait") =>
              /\ hub_pc' = "free"
              /\ \A s \in Spokes : LeftLoop(s)
              /\ SummariesCollected' ]_vars
    /\ [][ (kill_buf # <<>> /\ kill_buf' = <<>>) =>
              /\ hub_pc = "free"
              /\ KillPublished
              /\ SummariesCollected ]_vars

(* the hub stands before the release of its windows with the second report *)
(* of its spoke collected                                                  *)
C16_Witness ==
    /\ hub_pc = "free"
    /\ n_spokes = 1
    /\ \E s \in Spokes :
          /\ WriteId(spoke_buf[s]) = 2
          /\ hub_seen[s] = 2
          /\ BestInnerBound = spoke_buf[s][1]

(* a step that is the call of that name                                    *)
RoleCallStep(name) ==
    role_calls' = role_calls + 1 /\ role_last_calls'[2] = name

(* n + 1 slots, the first n undefined, the last one zero                   *)
Layout(buf, n) ==
    /\ Len(buf) = n + 1
    /\ \A k \in 1..n : buf[k] = NaN
    /\ buf[n + 1] = 0

(* C17: an allocation with requested length n, for every n >= 0, gives a   *)
(* buffer of n + 1 slots, the first n holding NaN and the last, the write  *)
(* counter, holding 0; communicator_array(n) gives the same layout.        *)
C17_AllocationLayout ==
    [][ (RoleCallStep("make_windows") /\ role_error' = "none") =>
           /\ \A i \in RoleWindows :
                 /\ role_live'[i]
                 /\ Layout(role_buffers'[i], role_length')
           /\ Layout(role_recv', role_length')
      ]_vars

(* windows of requested length 0: one slot, the counter                    *)
C17_Witness ==
    /\ n_spokes = 2
    /\ role_last_calls[2] = "make_windows"
    /\ role_error = "none"
    /\ role_length = 0
    /\ \A i \in RoleWindows : role_buffers[i] = <<0>>
    /\ role_recv = <<0>>

(* C18: free_windows() never raises; on a role without constructed         *)
(* windows it frees nothing; on a role with constructed windows it calls   *)
(* Free() once on each window of the role, drops the buffers and clears    *)
(* the flag, so that a second call frees nothing: no window is freed       *)
(* twice.                                                                  *)
C18_FreeWindowsIdempotent ==
    /\ [][ RoleCallStep("free_windows") =>
              /\ role_error' = "none"
              /\ ~role_constructed'
              /\ \A i \in SpokeDicts :
                    /\ ~role_live'[i]
                    /\ role_buffers'[i] = <<>>
                    /\ role_frees'[i] =
                          role_frees[i] + (IF role_live[i] THEN 1 ELSE 0)
              /\ ~role_constructed =>
                    UNCHANGED <<role_live, role_buffers, role_frees>>
              /\ role_constructed =>
                    \A i \in RoleWindows : role_frees'[i] = role_frees[i] + 1
         ]_vars
    /\ [](\A i \in SpokeDicts : role_frees[i] <= 1)

(* free_windows() called twice in a row on a role with two windows: each   *)
(* window has been freed once                                              *)
C18_Witness ==
    /\ n_spokes = 2
    /\ role_last_calls = <<"free_windows", "free_windows">>
    /\ role_calls = 3
    /\ \A i \in RoleWindows : role_frees[i] = 1
    /\ ~role_constructed
    /\ role_error = "none"

NoWindowAllocated == \A i \in SpokeDicts : ~role_live[i]

(* C19: a publish or a poll on a role none of whose windows is allocated   *)
(* (not yet, or not any more) raises the protocol-misuse error and leaves  *)
(* every buffer, the receive array and the last-seen counters as they      *)
(* were.                                                                   *)
C19_MisuseBeforeAllocation ==
    [][ ( (RoleCallStep("publish") \/ RoleCallStep("poll"))
          /\ NoWindowAllocated ) =>
           /\ role_error' = "misuse"
           /\ UNCHANGED <<role_buffers, role_recv, role_seen, role_live,
                          role_frees, role_constructed>>
      ]_vars

(* the first call on a fresh role object was a publish: it raised          *)
C19_Witness ==
    /\ role_calls = 1
    /\ role_last_calls[2] = "publish"
    /\ role_error = "misuse"
    /\ NoWindowAllocated

PollsHub(s) == spoke_pc[s] = "poll" /\ spoke_pc'[s] # "poll"

(* the step is a read of the bound windows by the hub                      *)
HubReadsBounds == hub_pc \in {"poll", "wait"} /\ hub_pc' # hub_pc

(* C21: once the owner of a window has completed its last publish and      *)
(* makes no further one, every later poll of the window by a reader gets    *)
(* exactly the payload and the counter of that last publish: a spoke that   *)
(* polls the outbound window of a converged hub holds the hub's last        *)
(* nonants and its publish count, a kill check after the kill publish sees  *)
(* the flag, and the hub reading the window of a spoke that has left its    *)
(* loop has the spoke's last reported bound and its counter.                *)
C21_EventualReadConsistency ==
    [][ \A s \in Spokes :
          /\ (hub_state = "CONVERGED" /\ PollsHub(s))
                => /\ localnonants'[s] = hub_x
                   /\ remote_write_id'[s] = hub_iter
                   /\ hub_buf[s] = Append(hub_x, hub_iter)
          /\ (hub_pc \in {"wait", "free"} /\ spoke_pc[s] = "kill_check"
                  /\ spoke_pc'[s] # "kill_check")
                => kill_seen'[s] /\ kill_buf = <<1, 1>>
          /\ (spoke_pc[s] = "free" /\ HubReadsBounds)
                => /\ hub_seen'[s] = WriteId(spoke_buf[s])
                   /\ WriteId(spoke_buf[s]) > 0
                         => /\ spoke_buf[s][1] = best_inner_bound[s]
                            /\ ~IsImproving(spoke_buf[s][1], BestInnerBound')
      ]_vars

(* a spoke has polled after the hub's second and last publish and holds    *)
(* its payload and counter, although its poll on the first counter had     *)
(* fetched a payload that mixed the two publishes                          *)
C21_Witness ==
    \E s \in Spokes :
        /\ hub_state = "CONVERGED"
        /\ hub_iter = 2
        /\ acted[s] = <<1, 2>>
        /\ torn_reported[s] # NaN
        /\ localnonants[s] = hub_x
        /\ remote_write_id[s] = 2

(* the hub has collected everything the spokes reported                    *)
HubCollectedAll == hub_pc \in {"free", "returned"}

(* C22: a torn read is self-correcting: a bound that a spoke published     *)
(* from a payload mixing two publishes does not remain the hub's tracked    *)
(* best once the spoke has processed a later complete publish: when the hub *)
(* has collected everything, its tracked best is not that bound unless the  *)
(* later complete pass gave the same value.                                 *)
C22_TornReadUndone ==
    \A s \in Spokes :
        (torn_reported[s] # NaN /\ full_after[s] # NaN /\ HubCollectedAll)
            => ~(/\ best_source = s
                 /\ BestInnerBound = torn_reported[s]
                 /\ full_after[s] # torn_reported[s])

(* ---------------- the aggregation of candidates ---------------- *)

ReduceDone == pure_call.fn = "reduce" /\ pure_result.stage = "done"

(* the column, as the set of its entries over all rows of the matrix       *)
ColumnEntries(m, col) == {m[i][col] : i \in 1..Len(m)}

(* C23: the aggregation is partition-invariant: for a fixed nonant matrix   *)
(* and either operator, for every split of its rows into non-empty groups   *)
(* over any number of replicas, the per-replica column reduction followed   *)
(* by the cross-replica reduction equals the one-shot column reduction of   *)
(* the whole matrix, which is the largest (smallest) entry of each column;  *)
(* rows [[1,5],[9,2],[3,3]] under max always give [9,5].                    *)
C23_PartitionInvariant ==
    ReduceDone =>
        LET m == pure_call.nonant_matrix
            h == pure_call.heuristic
        IN /\ pure_result.global = LocalCandidate(h, m)
           /\ \A col \in 1..2 :
                 pure_result.global[col] =
                    IF h = "SlamMaxHeuristic"
                       THEN MaxOf(ColumnEntries(m, col))
                       ELSE MinOf(ColumnEntries(m, col))
           /\ (m = ExampleMatrix /\ h = "SlamMaxHeuristic")
                 => pure_result.global = <<9, 5>>

(* the example matrix, its rows spread over three replicas of the max      *)
(* heuristic with the second row on the first replica, reduced to [9,5]    *)
C23_Witness ==
    /\ ReduceDone
    /\ pure_call.nonant_matrix = ExampleMatrix
    /\ pure_call.heuristic = "SlamMaxHeuristic"
    /\ pure_call.split = <<2, 1, 3>>
    /\ pure_result.local = <<<<9, 2>>, <<1, 5>>, <<3, 3>>>>
    /\ pure_result.global = <<9, 5>>

(* ---------------- rounding ---------------- *)

FixDone == pure_call.fn = "fix" /\ pure_result.stage = "done"

Dist(a, b) == IF a >= b THEN a - b ELSE b - a

(* the whole numbers, in tenths, around the values that occur              *)
WholeNumbers == {10 * k : k \in -5..5}

(* C24: in the aggregation spoke a binary or integer variable is fixed to   *)
(* the nearest integer of (candidate + rounding_bias), so 2.3 with bias 0.0 *)
(* gives 2 and 2.3 with bias 0.5 gives 3, while a continuous variable is    *)
(* fixed to the candidate unchanged for every bias; rounding_bias is 0.0    *)
(* when the option is absent.                                               *)
C24_RoundingRule ==
    FixDone =>
        LET val == pure_call.val
            bias == IF "rounding_bias" \in pure_call.opt.options
                       THEN pure_call.opt.rounding_bias ELSE 0
            fixed_to == pure_result.value
        IN /\ pure_call.kind \in {"binary", "integer"}
                 => /\ fixed_to \in WholeNumbers
                    /\ \A w \in WholeNumbers :
                          Dist(fixed_to, val + bias) <= Dist(w, val + bias)
                    /\ (val = 23 /\ bias = 0) => fixed_to = 20
                    /\ (val = 23 /\ bias = 5) => fixed_to = 30
           /\ pure_call.kind = "continuous" => fixed_to = val

(* 2.3 of an integer variable, with the option rounding_bias = 0.5, is     *)
(* fixed to 3                                                              *)
C24_Witness ==
    /\ FixDone
    /\ pure_call.val = 23
    /\ pure_call.kind = "integer"
    /\ pure_call.opt = [options |-> {"rounding_bias"}, rounding_bias |-> 5]
    /\ pure_result.value = 30

(* ---------------- startup preconditions ---------------- *)

(* spoke s has done nothing of its loop: no kill check, no poll that took  *)
(* data, no reduction, no publish                                          *)
NeverInLoop(s) ==
    /\ spoke_pc[s] \in {"setup", "prep", "raised", "exited", "aborted"}
    /\ acted[s] = <<>>
    /\ offered[s] = {}
    /\ ~kill_seen[s]
    /\ passes_after_kill[s] = 0
    /\ remote_write_id[s] = 0
    /\ fixed[s] = <<>>
    /\ obj[s] = NaN
    /\ Len(spoke_buf[s]) > 0 => spoke_buf[s] = make_window(BoundLen)

(* C25: the aggregation spoke checks its startup preconditions before      *)
(* entering the loop: with a multistage model, or with an optimizer that is *)
(* not an Xhat_Eval, main() raises a fatal error before the first           *)
(* got_kill_signal() check, before any poll of the hub, any collective      *)
(* reduction and any publish.                                               *)
C25_SlamPreconditions ==
    \A s \in Spokes :
        (SpokeKind(s) = "slam"
            /\ (opt[s].multistage \/ ~opt[s].is_Xhat_Eval))
        => /\ NeverInLoop(s)
           /\ spoke_pc[s] # "exited"
           /\ raised[s] \in {"none", "RuntimeError"}
           /\ spoke_pc[s] = "raised" <=> raised[s] = "RuntimeError"
           /\ ~warmed_up[s]

(* the aggregation spoke of a multistage model has raised in main() while  *)
(* the hub had already published nonants for it                            *)
C25_Witness ==
    \E s \in Spokes :
        /\ SpokeKind(s) = "slam"
        /\ opt[s].multistage
        /\ opt[s].is_Xhat_Eval
        /\ raised[s] = "RuntimeError"
        /\ WriteId(hub_buf[s]) >= 1
        /\ NeverInLoop(s)

(* C26: the look-ahead spoke's startup preconditions are fatal: when the    *)
(* options request scenario bundling (bundles_per_rank present and          *)
(* non-zero) or the optimizer is not an Xhat_Eval, xhatlooper_prep raises   *)
(* before any warm-up step, any loop pass and any publish; an absent        *)
(* bundles_per_rank or a value of 0 is accepted.                            *)
C26_XhatPreconditions ==
    \A s \in Spokes :
        SpokeKind(s) = "xhat" =>
            LET bundling == /\ "bundles_per_rank" \in opt[s].options
                            /\ opt[s].bundles_per_rank # 0
            IN /\ (bundling \/ ~opt[s].is_Xhat_Eval)
                     => /\ NeverInLoop(s)
                        /\ spoke_pc[s] # "exited"
                        /\ raised[s] \in {"none", "RuntimeError"}
                        /\ spoke_pc[s] = "raised"
                              <=> raised[s] = "RuntimeError"
                        /\ ~warmed_up[s]
               /\ (~bundling /\ opt[s].is_Xhat_Eval)
                     => /\ raised[s] # "RuntimeError"
                        /\ spoke_pc[s] \notin {"setup", "prep", "aborted"}
                              => warmed_up[s]

(* a look-ahead spoke with bundles_per_rank = 1 has raised while the hub   *)
(* had already published nonants for it                                    *)
C26_Witness ==
    \E s \in Spokes :
        /\ SpokeKind(s) = "xhat"
        /\ "bundles_per_rank" \in opt[s].options
        /\ opt[s].bundles_per_rank = 1
        /\ opt[s].is_Xhat_Eval
        /\ raised[s] = "RuntimeError"
        /\ WriteId(hub_buf[s]) >= 1
        /\ NeverInLoop(s)

(* no process of the wheel is running or waiting any more                  *)
AllEnded ==
    /\ hub_pc \in Ended
    /\ \A s \in Spokes : spoke_pc[s] \in Ended

(* C27: during the look-ahead spoke's one-time warm-up, if the scenario     *)
(* probabilities do not sum to 1 within the tolerance                       *)
(* (|1 - E1| > E1_tolerance) the entire run is aborted: no rank of any role *)
(* keeps running or is left waiting, and the failing spoke never enters its *)
(* loop or publishes.                                                       *)
C27_E1FailureAbortsRun ==
    /\ [](\A s \in Spokes :
             (SpokeKind(s) = "xhat" /\ raised[s] = "SystemExit")
                 => NeverInLoop(s))
    /\ (\E s \in Spokes : SpokeKind(s) = "xhat" /\ raised[s] = "SystemExit")
           ~> AllEnded

(* C28: a required but absent configuration key is a fatal error raised at *)
(* role construction: for the look-ahead spoke a missing                    *)
(* xhat_looper_options / scen_limit entry, and for the aggregation spoke a  *)
(* missing verbose entry, is reported when the role is constructed, before  *)
(* main() starts any preparation, warm-up or loop pass: the step that       *)
(* raises the KeyError is taken by a role that has been constructed and has *)
(* not started main(), and no warm-up has run by then.                      *)
C28_MissingKeyAtConstruction ==
    [][ \A s \in Spokes :
          (raised[s] = "none" /\ raised'[s] = "KeyError")
              => /\ spoke_pc[s] = "setup"
                 /\ ~warmed_up'[s]
      ]_vars

(* ---------------- failing solves ---------------- *)

(* what rank r has computed, published and taken over                      *)
RankState(r) ==
    IF r = 0
       THEN <<hub_iter, hub_x, hub_buf, kill_buf, hub_seen, BestInnerBound>>
       ELSE <<spoke_buf[r], remote_write_id[r], localnonants[r], fixed[r],
              obj[r], best_inner_bound[r], acted[r], offered[r]>>

(* C30: a runtime failure of the wrapped optimizer in any rank (hub step,   *)
(* or a spoke's calculate_incumbent / xhat_looper call) is not retried and  *)
(* is fatal to the whole run: the failing call is never re-issued (the rank *)
(* that failed computes, polls and publishes nothing afterwards), and after *)
(* the failure no hub or spoke remains looping or blocked forever: the      *)
(* hub's teardown wait and the replica's collective reduction end too.      *)
C30_SolverFailureIsFatal ==
    /\ [][ \A r \in {0} \cup Spokes :
             raised[r] = "SolverError"
                 => /\ raised'[r] = "SolverError"
                    /\ RankState(r)' = RankState(r)
                    /\ IF r = 0 THEN hub_pc' = "raised"
                                ELSE spoke_pc'[r] = "raised"
         ]_vars
    /\ (\E r \in {0} \cup Spokes : raised[r] = "SolverError")
           ~> (AllEnded /\ \A s \in Spokes : replica_pc[s] = "aborted")

(* calculate_incumbent failed while the hub was in its teardown wait; the  *)
(* run has been terminated, the hub and the replica with it                *)
C30_Witness ==
    \E s \in Spokes :
        /\ SpokeKind(s) = "slam"
        /\ raised[s] = "SolverError"
        /\ KillPublished
        /\ hub_pc = "aborted"
        /\ replica_pc[s] = "aborted"
        /\ AllEnded

(* ---------------- static configuration ---------------- *)

RhoMissing == cfg.default_rho = None /\ ~cfg.rho_setter

RhoDerived == cfg.sep_rho \/ cfg.coeff_rho \/ cfg.sensi_rho

ConvergerInvalid ==
    cfg.use_norm_rho_converger /\ ~cfg.use_norm_rho_updater

(* nothing of the wheel exists and no loop has iterated                    *)
NothingStarted ==
    /\ hub_pc = "setup"
    /\ hub_iter = 0
    /\ \A r \in Ranks : ~windows_constructed[r]
    /\ \A s \in SpokeDicts : spoke_pc[s] = "setup" /\ acted[s] = <<>>

(* the driver has raised before the hub specification was built            *)
RejectedAtSetup ==
    /\ driver_pc = "raised"
    /\ driver_error = "RuntimeError"
    /\ NothingStarted

(* an error of the driver is final and is raised by one of the two checks  *)
RaisesOnlyInChecks ==
    /\ [](driver_error # "none" => RejectedAtSetup)
    /\ [](driver_pc \in {"start", "rho_ok", "converger_ok", "raised"}
             => NothingStarted)
    /\ [][driver_pc' = "raised" => driver_pc \in {"start", "rho_ok"}]_vars

(* C29 as stated: when neither a rho setter nor a default rho is supplied, *)
(* the driver raises before the hub specification is built, before         *)
(* WheelSpinner is constructed and before any loop iterates; the same      *)
(* holds for use_norm_rho_converger without use_norm_rho_updater.          *)
C29_InvalidConfigRejected ==
    /\ RaisesOnlyInChecks
    /\ [][ (\/ driver_pc = "start" /\ RhoMissing
            \/ driver_pc = "rho_ok" /\ ConvergerInvalid)
              => RejectedAtSetup' ]_vars

(* C29, amended: when neither a rho setter nor a default rho is supplied,  *)
(* farmer_cylinders raises, and generic_cylinders raises unless one of     *)
(* sep_rho, coeff_rho, sensi_rho is set (it then takes 1 as the default    *)
(* rho and goes on); use_norm_rho_converger without use_norm_rho_updater   *)
(* makes both drivers raise. Each raise comes before the hub specification *)
(* is built, before WheelSpinner is constructed and before any loop        *)
(* iterates.                                                               *)
C29_InvalidConfigRejected_Amended ==
    /\ RaisesOnlyInChecks
    /\ [][ (\/ /\ driver_pc = "start" /\ RhoMissing
               /\ (cfg.driver = "farmer" \/ ~RhoDerived)
            \/ driver_pc = "rho_ok" /\ ConvergerInvalid)
              => RejectedAtSetup' ]_vars
    /\ [][ (/\ driver_pc = "start" /\ RhoMissing
            /\ cfg.driver = "generic" /\ RhoDerived)
              => (/\ driver_pc' = "rho_ok"
                  /\ driver_error' = "none"
                  /\ cfg' = [cfg EXCEPT !.default_rho = 1]) ]_vars

(* generic_cylinders has raised for want of a rho, and farmer_cylinders    *)
(* would have raised for the converger                                     *)
C29_Witness ==
    /\ RejectedAtSetup
    /\ cfg.driver = "generic"
    /\ RhoMissing
    /\ ~RhoDerived
    /\ ConvergerInvalid

(* ---------------- order of the writes of one window ---------------- *)

(* the windows of the wheel are allocated and not yet freed                *)
WindowsLive == Len(kill_buf) > 0

(* the write counters of the windows of the wheel, window by window        *)
Counters ==
    [w \in {0} \cup Spokes \cup {s + 10 : s \in Spokes} |->
        IF w = 0 THEN WriteId(kill_buf)
        ELSE IF w \in Spokes THEN WriteId(hub_buf[w])
        ELSE WriteId(spoke_buf[w - 10])]

(* C31: within one owner's window the writes are totally ordered by the    *)
(* counter: the counter values that a single reader fetches from a window  *)
(* over successive polls are non-decreasing. The counter of a window never *)
(* goes down while the window lives, and the last counter a reader (a      *)
(* spoke on the hub's window, the hub on a spoke's window) has taken over  *)
(* never goes down and is never ahead of the counter it will fetch next.   *)
C31_CountersOrdered ==
    /\ [][ (WindowsLive /\ WindowsLive')
              => \A w \in DOMAIN Counters : Counters'[w] >= Counters[w] ]_vars
    /\ [][ \A s \in Spokes : /\ remote_write_id'[s] >= remote_write_id[s]
                             /\ hub_seen'[s] >= hub_seen[s] ]_vars
    /\ [](WindowsLive =>
             \A s \in Spokes : /\ remote_write_id[s] <= WriteId(hub_buf[s])
                               /\ hub_seen[s] <= WriteId(spoke_buf[s]))

(* the look-ahead spoke has fetched the counters 1 and 2 from the hub's   *)
(* window, and the hub the counters 1 and 2 from the spoke's              *)
C31_Witness ==
    \E s \in Spokes :
        /\ SpokeKind(s) = "xhat"
        /\ WindowsLive
        /\ acted[s] = <<1, 2>>
        /\ hub_seen[s] = 2
        /\ WriteId(spoke_buf[s]) = 2

(* ---------------- surrogate nonants ---------------- *)

FixAllDone == pure_call.fn = "fix_all" /\ pure_result.stage = "done"

(* C32: when the aggregation spoke fixes variables, every nonant flagged   *)
(* as a surrogate is left unchanged (not fixed, not pushed to a persistent *)
(* solver), and every non-surrogate nonant at position ix of a scenario is *)
(* fixed to entry ix of the global candidate (rounded if it is an integer  *)
(* variable): skipping a surrogate does not shift the positions of the     *)
(* variables after it.                                                     *)
C32_SurrogatesSkipped ==
    FixAllDone =>
        \A ix \in 1..FixLen :
            LET var == pure_result.nonants[ix]
                entry == pure_call.global_candidate[ix]
            IN IF pure_call.surrogate[ix]
                  THEN var = FreeVar
                  ELSE /\ var.fixed
                       /\ var.updated = pure_call.is_pers
                       /\ var.value = IF pure_call.kind = "integer"
                                         THEN round(entry) ELSE entry

(* the first nonant is a surrogate and is skipped; the second and third    *)
(* take the second and third entries, which differ from the first          *)
C32_Witness ==
    /\ FixAllDone
    /\ pure_call.surrogate = <<TRUE, FALSE, FALSE>>
    /\ pure_call.global_candidate = <<13, 27, 13>>
    /\ pure_call.kind = "continuous"
    /\ pure_call.is_pers
    /\ pure_result.nonants[1] = FreeVar
    /\ pure_result.nonants[2].value = 27
    /\ pure_result.nonants[3].value = 13

(* ---------------- the pass of the look-ahead spoke ---------------- *)

XhatMainRuns == pure_call.fn = "xhat_main" /\ pure_result.stage # "start"

(* the calls of the passes over the first n polls                          *)
RECURSIVE PassCalls(_, _, _)
PassCalls(polls, scen_limit, n) ==
    IF n = 0 THEN <<>>
    ELSE PassCalls(polls, scen_limit, n - 1) \o
         (IF polls[n] = 0 THEN <<>>
          ELSE << <<"_put_nonant_cache", polls[n]>>,
                  <<"_restore_nonants", FALSE>>,
                  <<"xhat_looper", scen_limit, FALSE>>,
                  <<"update_if_improving", polls[n] + scen_limit>> >>)

(* positions of the calls of a name in the record of calls                 *)
CallsOf(name) ==
    {i \in 1..Len(pure_result.calls) : pure_result.calls[i][1] = name}

(* C33: in every look-ahead spoke pass that detects new data the steps     *)
(* happen in this order and each exactly once: push the polled vector into *)
(* the nonant cache, restore nonants into the local scenarios with         *)
(* update_persistent=False, run xhat_looper with the configured scen_limit *)
(* and restore_nonants=False, then call update_if_improving with the       *)
(* returned upper bound; the warm-up that saves the restore point runs     *)
(* once, before the first pass. A pass without new data makes no call, and *)
(* the solver-held values are never touched.                               *)
C33_PassOrder ==
    XhatMainRuns =>
        /\ pure_result.persistent = ModelValue
        /\ Cardinality(CallsOf("_save_nonants")) <= 1
        /\ \A i \in CallsOf("_put_nonant_cache") :
              \E j \in CallsOf("_save_nonants") : j < i
        /\ pure_result.stage \in {"kill_check", "poll", "done"}
              => /\ Cardinality(CallsOf("_save_nonants")) = 1
                 /\ SubSeq(pure_result.calls, Len(XhatPrepBody) + 1,
                           Len(pure_result.calls))
                       = PassCalls(pure_call.polls, pure_call.scen_limit,
                                   pure_result.pass)

(* three passes, the second without new data: two times the four calls    *)
(* after the warm-up, the bounds from the values 1.0 and 0.5               *)
C33_Witness ==
    /\ pure_call.fn = "xhat_main"
    /\ pure_result.stage = "done"
    /\ pure_call.polls = <<10, 0, 5>>
    /\ pure_call.scen_limit = 3
    /\ Len(pure_result.calls) = Len(XhatPrepBody) + 8
    /\ pure_result.calls[Len(pure_result.calls)]
          = <<"update_if_improving", 8>>
    /\ pure_result.scen = 5

(* ---------------- the idle pass ---------------- *)

(* what spoke s holds, computes with and has handed to the hub             *)
SpokeData(s) ==
    <<spoke_buf[s], remote_write_id[s], localnonants[s], fixed[s], obj[s],
      best_inner_bound[s], acted[s], offered[s]>>

(* C34: a spoke loop pass that finds no new data changes nothing but the   *)
(* pass counter: it fixes no variable, enters no collective reduction,     *)
(* touches no nonant cache, calls no update_if_improving and publishes     *)
(* nothing, and it returns to the kill-signal check without blocking: the  *)
(* poll of such a pass leads straight back to the loop test with the       *)
(* spoke's data as they were, and it can always be taken.                  *)
C34_IdlePass ==
    /\ [][ \A s \in Spokes :
             (spoke_pc[s] = "poll" /\ ~PollIsNew(s) /\ spoke_pc'[s] # "poll")
                 => /\ spoke_pc'[s] = "kill_check"
                    /\ SpokeData(s)' = SpokeData(s) ]_vars
    /\ [](\A s \in Spokes : spoke_pc[s] = "poll" => ENABLED SpokeNext(s))

(* a look-ahead spoke that has acted on the hub's first publish and        *)
(* published a bound polls again and finds the same counter                *)
C34_Witness ==
    \E s \in Spokes :
        /\ SpokeKind(s) = "xhat"
        /\ spoke_pc[s] = "poll"
        /\ ~PollIsNew(s)
        /\ acted[s] = <<1>>
        /\ WriteId(spoke_buf[s]) = 1
        /\ hub_state = "ITERATING"

(* ---------------- the undefined sentinel ---------------- *)

Entries(v) == {v[i] : i \in DOMAIN v}

(* C35: a spoke never acts on the undefined sentinel: while the hub's      *)
(* nonant window still has counter 0 (no publish yet) no spoke pass        *)
(* detects new data, so no candidate is computed from a NaN payload and no *)
(* bound is published before the hub's first publish; and the payload a    *)
(* spoke acts on holds no NaN.                                             *)
C35_NoActOnSentinel ==
    \A s \in Spokes :
        /\ (WindowsLive /\ WriteId(hub_buf[s]) = 0)
              => /\ acted[s] = <<>>
                 /\ offered[s] = {}
                 /\ fixed[s] = <<>>
                 /\ obj[s] = NaN
                 /\ spoke_buf[s] = make_window(BoundLen)
                 /\ spoke_pc[s] \notin {"allreduce", "report", "incr"}
        /\ acted[s] # <<>>
              => (NaN \notin Entries(localnonants[s])
                    /\ NaN \notin Entries(fixed[s]))

(* the aggregation spoke polls while the hub is in the middle of its first *)
(* payload write: one slot written, one still NaN, the counter still 0     *)
C35_Witness ==
    \E s \in Spokes :
        /\ SpokeKind(s) = "slam"
        /\ spoke_pc[s] = "poll"
        /\ WriteId(hub_buf[s]) = 0
        /\ hub_buf[s][1] # NaN
        /\ hub_buf[s][NonantLen] = NaN
        /\ NaN \in Entries(localnonants[s])

(* ---------------- the reduction across the replicas ---------------- *)

(* replica c waits in a reduction that the other replica has not entered   *)
BlockedInAllreduce(c) ==
    /\ replicas.pc[c] = "allreduce"
    /\ replicas.entered[Other(c)] < replicas.entered[c]

(* C36: the aggregation spoke's cross-replica reduction never deadlocks:   *)
(* every replica of the spoke enters the reduction the same number of      *)
(* times, and no replica stays blocked in it while a cooperating replica   *)
(* skipped that publish or has already left its loop on the kill signal.   *)
C36_AllreduceNeverDeadlocks ==
    \A c \in CylinderRanks :
        /\ BlockedInAllreduce(c) => replicas.pc[Other(c)] # "left"
        /\ (replicas.pc[c] = "left" /\ replicas.pc[Other(c)] = "left")
              => replicas.entered[c] = replicas.entered[Other(c)]

(* ---------------- publishes after termination ---------------- *)

(* the counter of the bound window of spoke s, 0 when it has no window    *)
BoundCounter(s) ==
    IF Len(spoke_buf[s]) = 0 THEN 0 ELSE WriteId(spoke_buf[s])

(* C37: publishes after termination are bounded: the kill check is at the  *)
(* top of the loop and update_if_improving at the end of the same pass, so *)
(* a spoke can publish after the hub set the kill signal only from the     *)
(* pass whose kill check preceded the signal: each spoke publishes at most *)
(* once after the hub has published termination. Whatever the counter n of *)
(* a spoke's window is at a time when the kill signal is published, it is  *)
(* at most n + 1 from then on; and a write to the window after the signal  *)
(* comes from a spoke that has made no kill check since.                   *)
C37_OnePublishAfterKill ==
    /\ \A s \in SpokeDicts : \A n \in 0..(MaxPublish + 1) :
          []((KillPublished /\ BoundCounter(s) = n)
                => [](BoundCounter(s) <= n + 1))
    /\ [][ \A s \in Spokes :
             (KillPublished /\ WindowsLive' /\ spoke_buf'[s] # spoke_buf[s])
                 => passes_after_kill[s] = 0 ]_vars

(* the look-ahead spoke is in the middle of a publish, payload written and *)
(* counter not yet incremented, and the kill signal has been published     *)
(* since its last kill check                                               *)
C37_Witness ==
    \E s \in Spokes :
        /\ SpokeKind(s) = "xhat"
        /\ KillPublished
        /\ spoke_pc[s] = "incr"
        /\ passes_after_kill[s] = 0
        /\ WriteId(spoke_buf[s]) = 1

(* ---------------- no use after free ---------------- *)

(* window s of the wheel, self.windows[s - 1] on every rank of the         *)
(* stratum: the hub's buffer towards spoke s and the buffer of spoke s     *)
LiveWindows == {s \in SpokeDicts : hub_buf[s] # <<>> \/ spoke_buf[s] # <<>>}

(* everything a publish writes and a poll takes over                       *)
WindowTraffic ==
    <<hub_buf, kill_buf, spoke_buf, remote_write_id, localnonants, hub_seen,
      BestInnerBound, kill_seen>>

Freed == hub_pc = "returned"

(* C38: no window is used after it is freed: in every execution no role    *)
(* publishes to or polls a window (its own or a peer's) after free_windows *)
(* has released it, each window is freed at most once, and free_windows    *)
(* releases exactly n_spokes = (stratum size - 1) windows per role.        *)
C38_NoUseAfterFree ==
    /\ [](Freed => /\ LiveWindows = {}
                   /\ kill_buf = <<>>
                   /\ \A r \in Ranks : ~windows_constructed[r]
                   /\ \A s \in Spokes : spoke_pc[s] = "returned")
    /\ [][ (windows_constructed[0] /\ ~windows_constructed'[0])
              => /\ LiveWindows = Spokes
                 /\ Cardinality(LiveWindows) = n_spokes
                 /\ LiveWindows' = {}
                 /\ \A s \in Spokes :
                       windows_constructed[s] /\ ~windows_constructed'[s] ]_vars
    /\ [][ Freed => /\ WindowTraffic' = WindowTraffic
                    /\ windows_constructed' = windows_constructed
                    /\ Freed' ]_vars
    /\ [][ WindowTraffic' # WindowTraffic
              => \/ windows_constructed[0] /\ windows_constructed'[0]
                 \/ hub_pc = "setup"
                 \/ (hub_pc = "free" /\ Freed') ]_vars

(* both spokes have published and the hub has polled them; then the two    *)
(* windows of every rank were released, and the drivers run on             *)
C38_Witness ==
    /\ Freed
    /\ n_spokes = 2
    /\ \A s \in Spokes : hub_seen[s] >= 1 /\ remote_write_id[s] >= 1
    /\ LiveWindows = {}
    /\ post_done # {}

(* ---------------- cuts of the discrete proximal approximation -------- *)

ProxRuns == pure_call.fn = "add_cut" /\ pure_result.stage = "cuts"
ProxCuts == IF ProxRuns THEN pure_result.cuts ELSE {}

(* every stored cut lies on a segment of the variable's domain             *)
CutsWithinBounds ==
    \A c \in ProxCuts : pure_call.lb < c[1] /\ c[1] <= pure_call.ub

(* nothing is stored twice, and the cut under k is that of (k - 1, k)      *)
CutsStoredOnce ==
    ProxRuns =>
       /\ \A k \in DOMAIN pure_result.adds : pure_result.adds[k] <= 1
       /\ \A c, d \in ProxCuts : c[1] = d[1] => c = d
       /\ \A c \in ProxCuts :
             /\ pure_result.adds[c[1]] = 1
             /\ c[2] = 2 * c[1] - 1
             /\ c[3] = 0 - ((c[1] - 1) * c[1])

(* a call never takes a cut away, and the call just made adds nothing      *)
(* when made again                                                         *)
CutsKept ==
    [][ (ProxRuns /\ ProxRuns')
           => /\ pure_result.cuts \subseteq pure_result'.cuts
              /\ pure_result'.last = pure_result.last
                    => /\ pure_result'.cuts = pure_result.cuts
                       /\ pure_result'.adds = pure_result.adds ]_vars

(* C40 as stated: for a discrete proximal-approximation manager with       *)
(* integer bounds lb < ub, after any sequence of add_cut calls with any    *)
(* values and sides every stored cut is indexed by an integer k with       *)
(* lb < k <= ub                                                            *)
C40_Original == CutsWithinBounds

(* C40, amended: after any sequence of add_cut calls with any sides and    *)
(* with values that round to an integer of lb..ub, every stored cut is     *)
(* indexed by an integer k with lb < k <= ub (the cut for the segment      *)
(* (k-1, k)); with any values at all, an existing cut is never overwritten *)
(* or added twice, and repeating an add_cut call with the same value adds  *)
(* nothing.                                                                *)
C40_CutsInRange ==
    /\ []((ProxRuns /\ pure_result.in_range) => CutsWithinBounds)
    /\ []CutsStoredOnce
    /\ CutsKept

(* bounds 0 and 2, three calls with values in range, the last one the      *)
(* repetition of the one before: both segments have their cut, each added  *)
(* once                                                                    *)
C40_Witness ==
    /\ ProxRuns
    /\ pure_call.lb = 0 /\ pure_call.ub = 2
    /\ pure_result.in_range
    /\ pure_result.n = MaxCuts
    /\ pure_result.repeated
    /\ pure_result.last = <<15, "BOTH">>
    /\ {c[1] : c \in pure_result.cuts} = {1, 2}

(* ---------------- the replicas agree on the candidate ---------------- *)

Reduced == pure_call.fn = "reduce" /\ pure_result.stage \in {"done", "fixed"}
NonantsFixed == pure_call.fn = "reduce" /\ pure_result.stage = "fixed"

(* C39: all cooperating replicas of an aggregation spoke agree on the      *)
(* candidate: after each cross-replica reduction every replica holds the   *)
(* identical global candidate vector, so a given nonant position is fixed  *)
(* to the same value in every local scenario of every replica before the   *)
(* objective is evaluated.                                                 *)
C39_ReplicasAgree ==
    /\ Reduced =>
          \A r, q \in DOMAIN pure_result.globals :
              pure_result.globals[r] = pure_result.globals[q]
    /\ NonantsFixed =>
          \A r, q \in DOMAIN pure_result.nonants :
              \A k \in DOMAIN pure_result.nonants[r],
                 j \in DOMAIN pure_result.nonants[q] :
                  \A ix \in 1..Len(pure_call.nonant_matrix[1]) :
                      /\ pure_result.nonants[r][k][ix]
                            = pure_result.nonants[q][j][ix]
                      /\ pure_result.nonants[r][k][ix]
                            = pure_result.globals[1][ix]

(* three replicas with different local candidates, one of them holding two *)
(* scenarios: all four scenarios are fixed to the same vector              *)
C39_Witness ==
    /\ NonantsFixed
    /\ pure_call.heuristic = "SlamMinHeuristic"
    /\ pure_call.split = <<1, 2, 1>>
    /\ pure_call.nonant_matrix = <<<<1, 2>>, <<2, 1>>, <<2, 2>>>>
    /\ pure_result.local = <<<<1, 2>>, <<2, 1>>>>
    /\ pure_result.globals = <<<<1, 1>>, <<1, 1>>>>
    /\ pure_result.nonants
          = <<<<<<1, 1>>, <<1, 1>>>>, <<<<1, 1>>>>>>

====
